---------------------------- MODULE Spec2Model ----------------------------
(***************************************************************************)
(* A model of the caniuseif compatibility engine                           *)
(* (src/src/services/caniuseService.ts, the variant with the dynamically   *)
(* loaded per-feature files and featureDataCache, lines 347-575).          *)
(*                                                                         *)
(* JavaScript strings are modelled as sequences of one-character strings,  *)
(* so that string concatenation (the lookup key of checkCompatibility) is  *)
(* computed and not assumed injective.  JavaScript numbers are modelled    *)
(* as IEEE-754 doubles (53-bit significand, round to nearest, ties to      *)
(* even), because the classification thresholds are compared against       *)
(* quotients that are not exactly representable.                           *)
(***************************************************************************)
EXTENDS Integers, Sequences, FiniteSets, TLC

(***************************************************************************)
(* Bounds of the model.                                                    *)
(***************************************************************************)
\* number of asynchronous calls (getFeature / checkCompatibility) issued
MaxCalls == 2
\* largest number of (browser, version) entries of a generated matrix
MaxEntries == 30

(***************************************************************************)
(* IEEE-754 double arithmetic on the non-negative values the engine        *)
(* computes: count / totalCount, * 100, +, >=.                             *)
(* Integers wider than the model checker's are sequences of limbs, least   *)
(* significant first, each limb below LimbBase = 2^LimbBits.               *)
(* A number is [kind |-> "num", exp |-> e, man |-> m] with m the           *)
(* ManLimbs limbs of the 53-bit significand M, 2^52 <= M < 2^53, denoting  *)
(* M * 2^(e - 52); or kind "zero"; or kind "nan" (0 / 0).                  *)
(***************************************************************************)
MantBits == 53

LimbBits == 13

LimbBase == 8192

\* limbs of a significand: 4 * 13 bits and the leading bit
ManLimbs == 5

PowersOfTwo ==
  <<1, 2, 4, 8, 16, 32, 64, 128, 256, 512, 1024, 2048, 4096, 8192, 16384,
    32768, 65536, 131072, 262144, 524288, 1048576, 2097152, 4194304,
    8388608, 16777216, 33554432, 67108864, 134217728, 268435456,
    536870912, 1073741824>>

Pow2(k) == PowersOfTwo[k + 1]

FZero == [kind |-> "zero", exp |-> 0, man |-> << >>]

FNaN == [kind |-> "nan", exp |-> 0, man |-> << >>]

\* limb i of a limb sequence, 0 beyond its end
Limb(a, i) == IF i >= 1 /\ i <= Len(a) THEN a[i] ELSE 0

\* number of bits of a natural number below 2^30
BitLenSmall(v) ==
  IF v = 0 THEN 0 ELSE CHOOSE k \in 1..30 : Pow2(k - 1) <= v /\ v < Pow2(k)

\* number of bits of a limb sequence that is not zero
BitLen(a) ==
  LET top == CHOOSE i \in 1..Len(a) :
               a[i] # 0 /\ \A j \in (i + 1)..Len(a) : a[j] = 0
  IN  LimbBits * (top - 1) + BitLenSmall(a[top])

\* bit k (0 the least significant) of a limb sequence
BitAt(a, k) == (Limb(a, (k \div LimbBits) + 1) \div Pow2(k % LimbBits)) % 2

\* some of the k least significant bits of a is set
LowBitsSet(a, k) ==
  \/ \E i \in 1..(k \div LimbBits) : Limb(a, i) # 0
  \/ Limb(a, (k \div LimbBits) + 1) % Pow2(k % LimbBits) # 0

\* a divided by 2^k, rounded down
ShiftRight(a, k) ==
  LET w == k \div LimbBits
      b == k % LimbBits
  IN  [i \in 1..(Len(a) - w) |->
         (Limb(a, i + w) \div Pow2(b))
         + (Limb(a, i + w + 1) % Pow2(b)) * Pow2(LimbBits - b)]

\* a times 2^k
ShiftLeft(a, k) ==
  LET w == k \div LimbBits
      b == k % LimbBits
  IN  [i \in 1..(Len(a) + w + 1) |->
         (Limb(a, i - w) % Pow2(LimbBits - b)) * Pow2(b)
         + (Limb(a, i - w - 1) \div Pow2(LimbBits - b))]

\* a + b: limb sums, and a carry into limb i when a lower limb overflows and
\* every limb between passes the carry on
AddLimbs(a, b) ==
  LET n == (IF Len(a) > Len(b) THEN Len(a) ELSE Len(b)) + 1
      sum == [i \in 1..n |-> Limb(a, i) + Limb(b, i)]
      carry == [i \in 1..n |->
                  IF \E j \in 1..(i - 1) :
                       /\ sum[j] >= LimbBase
                       /\ \A k \in (j + 1)..(i - 1) : sum[k] >= LimbBase - 1
                  THEN 1 ELSE 0]
  IN  [i \in 1..n |-> (sum[i] + carry[i]) % LimbBase]

\* a times a natural number k below LimbBase
MulSmall(a, k) ==
  AddLimbs([i \in 1..Len(a) |-> (a[i] * k) % LimbBase],
           [i \in 1..(Len(a) + 1) |-> (Limb(a, i - 1) * k) \div LimbBase])

\* Round the exact positive value (a + fraction) * 2^e to a double: a is a
\* limb sequence of at least 53 bits unless the value is exact, sticky says
\* that the fraction is not zero.  Round to nearest, ties to even.
RoundToDouble(a, sticky, e) ==
  LET len == BitLen(a)
      sh == len - MantBits
      kept == IF sh >= 0 THEN ShiftRight(a, sh) ELSE ShiftLeft(a, -sh)
      m == [i \in 1..ManLimbs |-> Limb(kept, i)]
      guard == IF sh >= 1 THEN BitAt(a, sh - 1) ELSE 0
      rest == sticky \/ (sh >= 2 /\ LowBitsSet(a, sh - 1))
      up == guard = 1 /\ (rest \/ m[1] % 2 = 1)
      inc == AddLimbs(m, <<1>>)
  IN  IF ~up THEN [kind |-> "num", exp |-> e + len - 1, man |-> m]
      ELSE IF inc[ManLimbs] = 2
           THEN [kind |-> "num", exp |-> e + len,
                 man |-> [i \in 1..ManLimbs |-> IF i = ManLimbs THEN 1 ELSE 0]]
           ELSE [kind |-> "num", exp |-> e + len - 1,
                 man |-> [i \in 1..ManLimbs |-> inc[i]]]

\* the double of a natural number below 2^26
FromNat(n) ==
  IF n = 0 THEN FZero
  ELSE RoundToDouble(<<n % LimbBase, n \div LimbBase>>, FALSE, 0)

\* n / d in JavaScript for naturals 0 <= n <= d < 2^17: 0 / 0 is NaN.
\* Long division, one limb of quotient bits at a time, to 66 bits.
FDiv(n, d) ==
  IF d = 0 THEN FNaN
  ELSE IF n = 0 THEN FZero
  ELSE LET s == CHOOSE k \in 0..17 :
                  n * Pow2(k) >= d /\ (k = 0 \/ n * Pow2(k - 1) < d)
           r0 == n * Pow2(s) - d
           q1 == (r0 * LimbBase) \div d
           r1 == (r0 * LimbBase) % d
           q2 == (r1 * LimbBase) \div d
           r2 == (r1 * LimbBase) % d
           q3 == (r2 * LimbBase) \div d
           r3 == (r2 * LimbBase) % d
           q4 == (r3 * LimbBase) \div d
           r4 == (r3 * LimbBase) % d
           q5 == (r4 * LimbBase) \div d
           r5 == (r4 * LimbBase) % d
       IN  RoundToDouble(<<q5, q4, q3, q2, q1, 1>>, r5 # 0,
                         -s - 5 * LimbBits)

\* x * k in JavaScript for a natural number 0 < k < LimbBase
FMulNat(x, k) ==
  IF x.kind # "num" THEN x
  ELSE RoundToDouble(MulSmall(x.man, k), FALSE, x.exp - (MantBits - 1))

\* x + y in JavaScript (non-negative operands)
FAdd(x, y) ==
  IF x.kind = "nan" \/ y.kind = "nan" THEN FNaN
  ELSE IF x.kind = "zero" THEN y
  ELSE IF y.kind = "zero" THEN x
  ELSE LET big == IF x.exp >= y.exp THEN x ELSE y
           small == IF x.exp >= y.exp THEN y ELSE x
           diff == big.exp - small.exp
       IN  IF diff > MantBits + 2 THEN big
           ELSE RoundToDouble(AddLimbs(ShiftLeft(big.man, diff), small.man),
                              FALSE, small.exp - (MantBits - 1))

\* a < b for limb sequences of equal length
LessLimbs(a, b) ==
  \E i \in 1..Len(a) :
    /\ a[i] < b[i]
    /\ \A j \in (i + 1)..Len(a) : a[j] = b[j]

\* x >= y in JavaScript (non-negative operands): false when either is NaN
FGeq(x, y) ==
  IF x.kind = "nan" \/ y.kind = "nan" THEN FALSE
  ELSE IF y.kind = "zero" THEN TRUE
  ELSE IF x.kind = "zero" THEN FALSE
  ELSE IF x.exp # y.exp THEN x.exp > y.exp
  ELSE ~LessLimbs(x.man, y.man)

(***************************************************************************)
(* Strings: sequences of one-character strings.                            *)
(***************************************************************************)
Chrome == <<"c", "h", "r", "o", "m", "e">>

Firefox == <<"f", "i", "r", "e", "f", "o", "x">>

DecimalDigits == <<"0", "1", "2", "3", "4", "5", "6", "7", "8", "9">>

\* String(n) for a natural number n
RECURSIVE NatStr(_)
NatStr(n) ==
  IF n < 10 THEN <<DecimalDigits[n + 1]>>
  ELSE Append(NatStr(n \div 10), DecimalDigits[(n % 10) + 1])

\* the characters the regular expression [a-zA-Z0-9_-] accepts
FileNameChars ==
  {"a", "b", "c", "d", "e", "f", "g", "h", "i", "j", "k", "l", "m",
   "n", "o", "p", "q", "r", "s", "t", "u", "v", "w", "x", "y", "z",
   "A", "B", "C", "D", "E", "F", "G", "H", "I", "J", "K", "L", "M",
   "N", "O", "P", "Q", "R", "S", "T", "U", "V", "W", "X", "Y", "Z",
   "0", "1", "2", "3", "4", "5", "6", "7", "8", "9", "_", "-"}

\* featureId.replace(/[^a-zA-Z0-9_-]/g, '_')
SanitizedId(featureId) ==
  [i \in 1..Len(featureId) |->
     IF featureId[i] \in FileNameChars THEN featureId[i] ELSE "_"]

(***************************************************************************)
(* The data model (types/compat): a support matrix `stats` is the          *)
(* Object.entries order of browsers, each with the Object.entries order of *)
(* its versions; `defined` is FALSE when the artifact has no stats member. *)
(***************************************************************************)
NoStats == [defined |-> FALSE, browsers |-> << >>]

\* the JavaScript null a failed load returns, as a FeatureData-shaped value
Null == [obj |-> 0, id |-> << >>, title |-> << >>, stats |-> NoStats]

\* the value of a browser of `stats` that is null instead of a versions object
NullVersions == <<[version |-> <<"(null)">>, support |-> << >>]>>

\* Object.entries(versions) throws a TypeError for one of the browsers
FlattenThrows(feature) ==
  IF feature = Null \/ ~feature.stats.defined THEN FALSE
  ELSE \E i \in 1..Len(feature.stats.browsers) :
         feature.stats.browsers[i].versions = NullVersions

\* the support level of one raw support code
SupportLevelOf(support) ==
  IF support = <<"y">> THEN "full"
  ELSE IF support = <<"a">> \/ support = <<"p">> THEN "partial"
  ELSE "none"

\* the (browserId, version, support, supportLevel) entries of one browser
BrowserEntries(b) ==
  [i \in 1..Len(b.versions) |->
     [browserId |-> b.browserId,
      version |-> b.versions[i].version,
      support |-> b.versions[i].support,
      supportLevel |-> SupportLevelOf(b.versions[i].support)]]

RECURSIVE FlattenStats(_)
FlattenStats(browsers) ==
  IF browsers = << >> THEN << >>
  ELSE BrowserEntries(browsers[1]) \o FlattenStats(Tail(browsers))

\* getBrowserSupportData once loadFeatureData has answered with `feature`
BrowserSupportDataOf(feature) ==
  IF feature = Null \/ ~feature.stats.defined THEN << >>
  ELSE FlattenStats(feature.stats.browsers)

\* a filter that keeps partial entries as well, as the first synchronous
\* variants of checkCompatibility did
SupportingBrowsersFullOrPartial(baseSupportData) ==
  SelectSeq(baseSupportData,
            LAMBDA support : support.supportLevel \in {"full", "partial"})

\* the entries of the base feature that checkCompatibility keeps
SupportingBrowsers(baseSupportData) ==
  SelectSeq(baseSupportData, LAMBDA support : support.supportLevel = "full")

\* a key that leaves the version out
SupportKeyBrowserOnly(support) == support.browserId

\* `${support.browserId}-${support.version}`
SupportKey(support) == support.browserId \o <<"-">> \o support.version

\* the Map filled by targetSupportData.forEach: a later entry with the same
\* key replaces an earlier one
TargetSupportMap(targetSupportData) ==
  LET n == Len(targetSupportData)
      keys == {SupportKey(targetSupportData[i]) : i \in 1..n}
  IN  [k \in keys |->
         targetSupportData[
           CHOOSE i \in 1..n :
             /\ SupportKey(targetSupportData[i]) = k
             /\ \A j \in (i + 1)..n : SupportKey(targetSupportData[j]) # k]]

\* what the forEach over supportingBrowsers pushes for one base entry
OverlapEntry(baseSupport, targetSupportMap) ==
  IF SupportKey(baseSupport) \in DOMAIN targetSupportMap
  THEN targetSupportMap[SupportKey(baseSupport)]
  ELSE [browserId |-> baseSupport.browserId,
        version |-> baseSupport.version,
        support |-> <<"n">>,
        supportLevel |-> "none"]

\* an overlap that leaves out the supporting entries the target lacks
OverlappingSupportMatchedOnly(supportingBrowsers, targetSupportData) ==
  LET map == TargetSupportMap(targetSupportData)
      all == [i \in 1..Len(supportingBrowsers) |->
                OverlapEntry(supportingBrowsers[i], map)]
  IN  SelectSeq(all, LAMBDA e : e.supportLevel # "none")

OverlappingSupport(supportingBrowsers, targetSupportData) ==
  LET map == TargetSupportMap(targetSupportData)
  IN  [i \in 1..Len(supportingBrowsers) |->
         OverlapEntry(supportingBrowsers[i], map)]

\* the three counters after the forEach
SupportCounts(overlappingSupport) ==
  LET at(level) ==
        Cardinality({i \in 1..Len(overlappingSupport) :
                       overlappingSupport[i].supportLevel = level})
  IN  [full |-> at("full"),
       partial |-> at("partial"),
       none |-> Len(overlappingSupport) - at("full") - at("partial")]

\* a share that is never scaled to a percentage
SupportPercentageUnscaled(count, totalCount) ==
  IF totalCount > 0 THEN FDiv(count, totalCount) ELSE FZero

\* a percentage without the totalCount > 0 test
SupportPercentageUnguarded(count, totalCount) ==
  FMulNat(FDiv(count, totalCount), 100)

\* totalCount > 0 ? (count / totalCount) * 100 : 0
SupportPercentage(count, totalCount) ==
  IF totalCount > 0 THEN FMulNat(FDiv(count, totalCount), 100) ELSE FZero


FullThreshold == 100

PartialThreshold == 70

\* a classification whose first test is > instead of >=
ClassifyAboveFull(fullSupportPercentage, partialSupportPercentage) ==
  IF ~FGeq(FromNat(FullThreshold), fullSupportPercentage) THEN "full"
  ELSE IF FGeq(FAdd(fullSupportPercentage, partialSupportPercentage),
               FromNat(PartialThreshold))
       THEN "partial"
       ELSE "none"

\* the if / else if / else that determines `compatible`
Classify(fullSupportPercentage, partialSupportPercentage) ==
  IF FGeq(fullSupportPercentage, FromNat(FullThreshold)) THEN "full"
  ELSE IF FGeq(FAdd(fullSupportPercentage, partialSupportPercentage),
               FromNat(PartialThreshold))
       THEN "partial"
       ELSE "none"

\* a result that returns the overlap in place of the target matrix
CompatibilityResultOverlapOnly(supportingBrowsers, targetSupportData) ==
  LET overlappingSupport ==
        OverlappingSupport(supportingBrowsers, targetSupportData)
      counts == SupportCounts(overlappingSupport)
      totalCount == Len(supportingBrowsers)
      fullSupportPercentage == SupportPercentage(counts.full, totalCount)
      partialSupportPercentage == SupportPercentage(counts.partial, totalCount)
  IN  [compatible |-> Classify(fullSupportPercentage, partialSupportPercentage),
       baseFeatureBrowsers |-> supportingBrowsers,
       targetFeatureSupport |-> overlappingSupport,
       overlappingSupport |-> overlappingSupport,
       fullSupportPercentage |-> fullSupportPercentage,
       partialSupportPercentage |-> partialSupportPercentage,
       counts |-> counts]

\* checkCompatibility from the two flattened matrices to the returned object;
\* `counts` keeps the local counters beside the returned fields
CompatibilityResultOf(supportingBrowsers, targetSupportData) ==
  LET overlappingSupport ==
        OverlappingSupport(supportingBrowsers, targetSupportData)
      counts == SupportCounts(overlappingSupport)
      totalCount == Len(supportingBrowsers)
      fullSupportPercentage == SupportPercentage(counts.full, totalCount)
      partialSupportPercentage == SupportPercentage(counts.partial, totalCount)
  IN  [compatible |-> Classify(fullSupportPercentage, partialSupportPercentage),
       baseFeatureBrowsers |-> supportingBrowsers,
       targetFeatureSupport |-> targetSupportData,
       overlappingSupport |-> overlappingSupport,
       fullSupportPercentage |-> fullSupportPercentage,
       partialSupportPercentage |-> partialSupportPercentage,
       counts |-> counts]

\* the value of `result` of a call that has not returned
NoResult ==
  [compatible |-> "pending",
   baseFeatureBrowsers |-> << >>,
   targetFeatureSupport |-> << >>,
   overlappingSupport |-> << >>,
   fullSupportPercentage |-> FZero,
   partialSupportPercentage |-> FZero,
   counts |-> [full |-> 0, partial |-> 0, none |-> 0]]

(***************************************************************************)
(* Datasets: the catalog src/data/features.json and the per-feature files  *)
(* src/data/features/<sanitized id>.json written by the build script.      *)
(* A dataset is fixed for a run.                                           *)
(***************************************************************************)
\* the build script names the features it extracts with underscores
IdGrid == <<"c", "s", "s", "_", "g", "r", "i", "d">>

IdWebp == <<"w", "e", "b", "p">>

\* an id no catalog record and no file exists for
IdNope == <<"n", "o", "p", "e">>

\* an id without a catalog record whose sanitized name is the file of IdGrid
IdDotted == <<"c", "s", "s", ".", "g", "r", "i", "d">>

\* marks a (browser, version) pair a generated matrix has no entry for
Absent == <<"(absent)">>

\* the versions of every second entry of `codes`, from index `from` (1 or 2)
GenVersions(codes, from) ==
  LET m == (Len(codes) + 2 - from) \div 2
      all == [j \in 1..m |->
                [version |-> NatStr(j), support |-> codes[2 * (j - 1) + from]]]
  IN  SelectSeq(all, LAMBDA e : e.support # Absent)

\* a matrix over the pairs chrome 1, firefox 1, chrome 2, firefox 2, ...
\* with the given code for each pair
GenStats(codes) ==
  [defined |-> TRUE,
   browsers |->
     SelectSeq(<<[browserId |-> Chrome, versions |-> GenVersions(codes, 1)],
                 [browserId |-> Firefox, versions |-> GenVersions(codes, 2)]>>,
               LAMBDA b : b.versions # << >>)]

TitleGrid == <<"C", "S", "S", " ", "G", "r", "i", "d">>

TitleWebp == <<"W", "e", "b", "P">>

\* a catalog of the two features with the given matrices; `parses` is FALSE
\* for a file the import() of which rejects although it exists
PairDataset(baseStats, targetStats) ==
  [featuresData |-> <<[id |-> IdGrid, title |-> TitleGrid],
                      [id |-> IdWebp, title |-> TitleWebp]>>,
   files |-> (SanitizedId(IdGrid) :> [parses |-> TRUE, stats |-> baseStats])
             @@ (SanitizedId(IdWebp) :> [parses |-> TRUE, stats |-> targetStats]),
   requestIds |-> {IdGrid, IdWebp}]

\* the end-to-end example of the specification
ExampleBaseStats ==
  [defined |-> TRUE,
   browsers |->
     <<[browserId |-> Chrome,
        versions |-> [i \in 1..5 |-> [version |-> NatStr(i), support |-> <<"y">>]]],
       [browserId |-> Firefox,
        versions |-> [i \in 1..3 |-> [version |-> NatStr(i), support |-> <<"y">>]]]>>]

ExampleTargetStats ==
  [defined |-> TRUE,
   browsers |->
     <<[browserId |-> Chrome,
        versions |-> [i \in 1..5 |->
                        [version |-> NatStr(i),
                         support |-> IF i <= 3 THEN <<"y">> ELSE <<"n">>]]],
       [browserId |-> Firefox,
        versions |-> [i \in 1..3 |-> [version |-> NatStr(i), support |-> <<"y">>]]]>>]

ExampleDataset ==
  [PairDataset(ExampleBaseStats, ExampleTargetStats)
     EXCEPT !.requestIds = {IdGrid, IdWebp, IdNope, IdDotted}]

\* the datasets of the concurrent specification: callers ask for two
\* loadable features, or for one of them and an id that cannot be loaded
MainDatasets ==
  {PairDataset(GenStats(<<<<"y">>, <<"a">>, <<"y">>>>),
               GenStats(<<<<"y">>, <<"y">>, <<"n">>>>)),
   [PairDataset(GenStats(<<<<"y">>, <<"y">>>>),
                GenStats(<<<<"a">>, Absent>>))
      EXCEPT !.requestIds = {IdGrid, IdNope}],
   [PairDataset(GenStats(<<<<"a">>, <<"y">>>>),
                GenStats(<<<<"y">>, <<"n">>, <<"y">>>>))
      EXCEPT !.requestIds = {IdWebp, IdDotted}]}

\* raw support codes of the Can I Use data and of the build script
Codes ==
  {<<"y">>, <<"n">>, <<"a">>, <<"p">>, <<"x">>, <<"u">>,
   <<"y", " ", "x">>, <<"a", " ", "#", "1">>}

ShapeCodes == {<<"y">>, <<"a">>, <<"n">>}

\* largest number of entries of the matrices generated with every shape
ShapeEntries == 2

\* the numbers p of partial entries tried beside f full ones out of t: none,
\* all the others, and the two around a combined share of PartialThreshold
TallyPartials(t, f) ==
  {p \in 0..(t - f) :
     \/ p = 0
     \/ p = t - f
     \/ /\ 100 * (f + p + 1) >= PartialThreshold * t
        /\ 100 * (f + p - 1) < PartialThreshold * t}

\* base: t entries 'y'; target: f entries 'y', then p entries 'a', then 'n'
TallyDatasets ==
  {PairDataset(GenStats([i \in 1..x[1] |-> <<"y">>]),
               GenStats([i \in 1..x[1] |->
                           IF i <= x[2] THEN <<"y">>
                           ELSE IF i <= x[2] + x[3] THEN <<"a">> ELSE <<"n">>])) :
     x \in UNION {{<<t, f, p>> : p \in TallyPartials(t, f)} :
                   t \in 0..MaxEntries, f \in 0..MaxEntries}}

\* every base and target matrix of at most ShapeEntries entries
ShapeDatasets ==
  UNION {{PairDataset(GenStats(b), GenStats(t)) :
            b \in [1..n -> ShapeCodes], t \in [1..n -> ShapeCodes \cup {Absent}]} :
         n \in 0..ShapeEntries}

\* one entry with every pair of raw codes
CodeDatasets ==
  {PairDataset(GenStats(<<b>>), GenStats(<<t>>)) : b \in Codes, t \in Codes}

\* the shapes of a file of IdWebp that is not a support matrix: no stats
\* member, a browser that is null, and a file that cannot be read
IllShapedStats ==
  {NoStats,
   [defined |-> TRUE,
    browsers |-> <<[browserId |-> Chrome, versions |-> NullVersions]>>]}

IllShapedDatasets ==
  {PairDataset(GenStats(<<b>>), t) : b \in ShapeCodes, t \in IllShapedStats}
  \cup {[PairDataset(GenStats(<<b>>), GenStats(<<b>>))
           EXCEPT !.files[SanitizedId(IdWebp)].parses = FALSE] : b \in ShapeCodes}

EngineDatasets ==
  {ExampleDataset} \cup TallyDatasets \cup ShapeDatasets \cup CodeDatasets
  \cup IllShapedDatasets

\* one browser of a matrix with one version
OneVersion(browserId, version, support) ==
  [browserId |-> browserId,
   versions |-> <<[version |-> version, support |-> support]>>]

AndChr == <<"a", "n", "d", "-", "c", "h", "r">>

\* matrices over browser ids and versions with a hyphen in them: stats is a
\* Record<string, Record<string, string>>, its keys are any strings
KeyStats ==
  {[defined |-> TRUE, browsers |-> <<OneVersion(AndChr, NatStr(1), s)>>] :
     s \in {<<"y">>, <<"n">>}}
  \cup {[defined |-> TRUE,
         browsers |-> <<OneVersion(<<"a", "n", "d">>, <<"c", "h", "r", "-", "1">>, <<"y">>)>>],
        [defined |-> TRUE,
         browsers |-> <<OneVersion(AndChr, NatStr(1), <<"n">>),
                        OneVersion(<<"a", "n", "d">>, <<"c", "h", "r", "-", "1">>, <<"y">>)>>],
        [defined |-> TRUE,
         browsers |-> <<OneVersion(<<"a", "n", "d">>, <<"c", "h", "r", "-", "1">>, <<"y">>),
                        OneVersion(AndChr, NatStr(1), <<"a">>)>>],
        [defined |-> TRUE,
         browsers |-> <<OneVersion(<<"i", "o", "s", "_", "s", "a", "f">>, <<"1", "5", ".", "2", "-", "1", "5", ".", "3">>, <<"y">>),
                        OneVersion(<<"i", "o", "s", "_", "s", "a", "f">>, <<"1", "5">>, <<"y">>)>>]}

KeyDatasets ==
  {[PairDataset(b, t) EXCEPT !.requestIds = {IdGrid, IdWebp, IdNope, IdDotted}] :
     b \in KeyStats, t \in KeyStats}

(***************************************************************************)
(* The build script (scripts/build-compat-data): the catalog and the       *)
(* per-feature files are made from the features of Can I Use and from the  *)
(* __compat entries of the browser-compat-data tree.  A JavaScript object  *)
(* is the sequence of its entries in insertion order.  The conversion of   *)
(* the support statements of an entry is not part of this model: the       *)
(* `stats` of an upstream entry is the matrix the conversion makes of it.  *)
(***************************************************************************)
MaxUpstream == 2

\* str.replace(/from/g, to) for a one-character pattern
ReplaceAll(str, from, to) ==
  [i \in 1..Len(str) |-> IF str[i] = from THEN to ELSE str[i]]

\* path.join(sep)
RECURSIVE JoinPath(_, _)
JoinPath(path, sep) ==
  IF path = << >> THEN << >>
  ELSE IF Len(path) = 1 THEN path[1]
  ELSE path[1] \o sep \o JoinPath(Tail(path), sep)

\* `mdn-${fullPath.replace(/\./g, '_')}`
FeatureKey(path) ==
  <<"m", "d", "n", "-">> \o ReplaceAll(JoinPath(path, <<".">>), ".", "_")

\* the entries of the object the assignments obj[key] = value make, in
\* order: a key keeps the place of its first assignment and the value of
\* its last
ObjectEntries(assignments) ==
  LET n == Len(assignments)
      firsts == SelectSeq([i \in 1..n |-> i],
                          LAMBDA i : \A j \in 1..(i - 1) :
                                       assignments[j].key # assignments[i].key)
      last(key) == CHOOSE i \in 1..n :
                     /\ assignments[i].key = key
                     /\ \A j \in (i + 1)..n : assignments[j].key # key
  IN  [k \in 1..Len(firsts) |->
         [key |-> assignments[firsts[k]].key,
          value |-> assignments[last(assignments[firsts[k]].key)].value]]

BcdTitleMap ==
  <<<<<<"a", "p", "i">>,
      <<"A", "P", "I">>>>,
    <<<<"c", "s", "s", ".", "a", "t", "-", "r", "u", "l", "e", "s">>,
      <<"C", "S", "S", " ", "a", "t", "-", "r", "u", "l", "e">>>>,
    <<<<"c", "s", "s", ".", "t", "y", "p", "e", "s">>,
      <<"C", "S", "S", " ", "T", "y", "p", "e", "s">>>>,
    <<<<"c", "s", "s", ".", "p", "r", "o", "p", "e", "r", "t", "i", "e", "s">>,
      <<"C", "S", "S", " ", "P", "r", "o", "p", "e", "r", "t", "y">>>>,
    <<<<"c", "s", "s", ".", "s", "e", "l", "e", "c", "t", "o", "r", "s">>,
      <<"C", "S", "S", " ", "S", "e", "l", "e", "c", "t", "o", "r">>>>,
    <<<<"h", "t", "m", "l">>,
      <<"H", "T", "M", "L">>>>,
    <<<<"h", "t", "t", "p">>,
      <<"H", "T", "T", "P">>>>,
    <<<<"j", "a", "v", "a", "s", "c", "r", "i", "p", "t">>,
      <<"J", "a", "v", "a", "S", "c", "r", "i", "p", "t">>>>,
    <<<<"m", "a", "n", "i", "f", "e", "s", "t", "s">>,
      <<"W", "e", "b", " ", "A", "p", "p", " ", "M", "a", "n", "i", "f", "e", "s", "t">>>>,
    <<<<"m", "a", "t", "h", "m", "l">>,
      <<"M", "a", "t", "h", "M", "L">>>>,
    <<<<"s", "v", "g">>,
      <<"S", "V", "G">>>>,
    <<<<"w", "e", "b", "a", "s", "s", "e", "m", "b", "l", "y">>,
      <<"W", "e", "b", "A", "s", "s", "e", "m", "b", "l", "y">>>>,
    <<<<"w", "e", "b", "d", "r", "i", "v", "e", "r">>,
      <<"W", "e", "b", "D", "r", "i", "v", "e", "r">>>>,
    <<<<"w", "e", "b", "e", "x", "t", "e", "n", "s", "i", "o", "n", "s">>,
      <<"W", "e", "b", " ", "E", "x", "t", "e", "n", "s", "i", "o", "n", "s">>>>>>

\* bcdTitleMap[prefix] ?? prefix.replace(/\./g, ' ')
PrefixLabel(prefix) ==
  IF \E i \in 1..Len(BcdTitleMap) : BcdTitleMap[i][1] = prefix
  THEN BcdTitleMap[CHOOSE i \in 1..Len(BcdTitleMap) :
                     BcdTitleMap[i][1] = prefix][2]
  ELSE ReplaceAll(prefix, ".", " ")

\* the FeatureData of an entry of the tree that has no description
ConvertBCDEntryToMinimalEntry(bcdResult) ==
  [id |-> bcdResult.key,
   title |-> PrefixLabel(bcdResult.prefix) \o <<":", " ">> \o bcdResult.origKey,
   stats |-> bcdResult.data.stats]

\* extractMdnFeatures over the __compat entries in the order traverseObject
\* meets them
ExtractMdnFeatures(bcd) ==
  ObjectEntries(
    [i \in 1..Len(bcd) |->
       [key |-> FeatureKey(bcd[i].path),
        value |-> ConvertBCDEntryToMinimalEntry(
                    [key |-> FeatureKey(bcd[i].path),
                     origKey |-> bcd[i].path[Len(bcd[i].path)],
                     data |-> bcd[i],
                     prefix |-> JoinPath(SubSeq(bcd[i].path, 1,
                                                Len(bcd[i].path) - 1),
                                         <<".">>)])]])

\* buildCompatData: the features of both parts one after the other, and the
\* object { ...caniuseCompatData, ...mdnFeatures }
BuildCompatData(upstream) ==
  LET caniuse == [i \in 1..Len(upstream.caniuse) |->
                    [id |-> upstream.caniuse[i].id,
                     title |-> IF upstream.caniuse[i].title # << >>
                               THEN upstream.caniuse[i].title
                               ELSE upstream.caniuse[i].id,
                     stats |-> upstream.caniuse[i].stats]]
      mdnFeatures == ExtractMdnFeatures(upstream.bcd)
      asFeature(f) == [id |-> f.id, title |-> f.title]
  IN  [features |->
         [i \in 1..Len(caniuse) |-> asFeature(caniuse[i])]
         \o [i \in 1..Len(mdnFeatures) |-> asFeature(mdnFeatures[i].value)],
       data |->
         ObjectEntries([i \in 1..Len(caniuse) |->
                          [key |-> caniuse[i].id, value |-> caniuse[i]]]
                       \o mdnFeatures)]

\* the files main writes: a later write to the same path replaces the file
FeatureFiles(compatData) ==
  LET n == Len(compatData)
      names == {SanitizedId(compatData[i].key) : i \in 1..n}
  IN  [name \in names |->
         [parses |-> TRUE,
          stats |-> compatData[
                      CHOOSE i \in 1..n :
                        /\ SanitizedId(compatData[i].key) = name
                        /\ \A j \in (i + 1)..n :
                             SanitizedId(compatData[j].key) # name].value.stats]]

\* the sequences of at most MaxUpstream different members of a set
RECURSIVE DistinctSeqs(_, _)
DistinctSeqs(S, n) ==
  IF n = 0 THEN {<< >>}
  ELSE LET shorter == DistinctSeqs(S, n - 1)
       IN  shorter \cup
           {Append(r[1], r[2]) :
              r \in {q \in shorter \X S :
                       /\ Len(q[1]) = n - 1
                       /\ \A i \in 1..(n - 1) : q[1][i] # q[2]}}

IdCssGrid == <<"c", "s", "s", "-", "g", "r", "i", "d">>

IdMdnCssGrid == <<"m", "d", "n", "-", "c", "s", "s", "_", "g", "r", "i", "d">>

\* an id without a catalog record whose sanitized name can be a file
IdMdnDotted == <<"m", "d", "n", "-", "c", "s", "s", "_", "a", ".", "b">>

\* ids of features of Can I Use
CaniuseIds == {IdWebp, IdCssGrid, IdMdnCssGrid}

\* paths of __compat entries of the css category
BcdPaths ==
  {<<<<"c", "s", "s">>, <<"g", "r", "i", "d">>>>,
   <<<<"c", "s", "s">>, <<"a", "@", "b">>>>,
   <<<<"c", "s", "s">>, <<"a", "_", "b">>>>,
   <<<<"c", "s", "s">>, <<"a">>, <<"b">>>>}

\* the packages the build imports: every feature has a matrix of its own
Upstreams ==
  {[caniuse |-> [i \in 1..Len(ids) |->
                   [id |-> ids[i],
                    title |-> IF ids[i] = IdWebp THEN << >> ELSE TitleGrid,
                    stats |-> [defined |-> TRUE,
                               browsers |-> <<OneVersion(Chrome, NatStr(i),
                                                         <<"y">>)>>]]],
    bcd |-> [i \in 1..Len(paths) |->
               [path |-> paths[i],
                stats |-> [defined |-> TRUE,
                           browsers |-> <<OneVersion(Firefox, NatStr(i),
                                                     <<"y">>)>>]]]] :
     ids \in DistinctSeqs(CaniuseIds, MaxUpstream) \ {<< >>},
     paths \in DistinctSeqs(BcdPaths, MaxUpstream) \ {<< >>}}

\* the ids callers ask for: the ids of the catalog, and two that are not
BuildRequestIds(upstream) ==
  {BuildCompatData(upstream).features[i].id :
     i \in 1..Len(BuildCompatData(upstream).features)}
  \cup {IdNope, IdMdnDotted}

\* src/data before the build script has run
Unbuilt(upstream) ==
  [featuresData |-> << >>,
   files |-> << >>,
   requestIds |-> BuildRequestIds(upstream),
   upstream |-> upstream,
   built |-> FALSE]

UnbuiltDatasets == {Unbuilt(upstream) : upstream \in Upstreams}

(***************************************************************************)
(* The state.                                                              *)
(***************************************************************************)
VARIABLES
  dataset,           \* featuresData and the per-feature files
  featureDataCache,  \* the Map featureDataCache: feature id -> FeatureData
  nextObj,           \* identity of the next FeatureData object constructed
  loadsStarted,      \* per feature id, the import() calls loadFeatureData made
  warnings,          \* number of console.warn calls
  calls,             \* the asynchronous calls, by slot
  slots,             \* number of calls a run may issue
  app,               \* the App component: its state and the session history
  display            \* the ResultsDisplay component: its props and state

vars == <<dataset, featureDataCache, nextObj, loadsStarted, warnings, calls, slots, app, display>>

IdleCall ==
  [kind |-> "none", base |-> << >>, target |-> << >>, phase |-> "base",
   pc |-> "idle", val |-> Null, supportingBrowsers |-> << >>,
   feature |-> Null, result |-> NoResult,
   ids |-> {}, pending |-> {}, abandoned |-> FALSE,
   query |-> << >>, title |-> << >>, found |-> << >>,
   browserId |-> << >>, name |-> << >>,
   roles |-> {}, baseFeature |-> Null, targetFeature |-> Null]

\* null, where a feature id or a title is expected
NullId == <<"(null)">>

\* App before it is mounted
NoApp ==
  [variant |-> "none", effects |-> "none",
   baseFeatureId |-> NullId, targetFeatureId |-> NullId,
   compatibilityResult |-> [base |-> NullId, target |-> NullId],
   error |-> "(null)", history |-> << >>, index |-> 0, event |-> "none"]

\* ResultsDisplay before it is mounted
NoDisplay ==
  [mounted |-> FALSE, baseFeatureId |-> NullId, targetFeatureId |-> NullId,
   baseFeature |-> Null, targetFeature |-> Null,
   loading |-> TRUE, error |-> "(null)"]

\* the id a call is loading
LoadingId(call) == IF call.phase = "base" THEN call.base ELSE call.target

\* the ids whose import() a call is waiting for
InFlight(call) ==
  IF call.kind = "preload" THEN call.pending
  ELSE IF call.kind = "details"
  THEN {IF r = "base" THEN call.base ELSE call.target : r \in call.roles}
  ELSE IF call.pc = "import" THEN {LoadingId(call)} ELSE {}

\* await import(`../data/features/${sanitizedId}.json`) resolves
ImportSucceeds(featureId) ==
  IF SanitizedId(featureId) \in DOMAIN dataset.files
  THEN dataset.files[SanitizedId(featureId)].parses
  ELSE FALSE

\* featuresData.find((f) => f.id === featureId)
FeatureMetadata(featureId) ==
  LET fd == dataset.featuresData
      hits == {i \in 1..Len(fd) : fd[i].id = featureId}
  IN  IF hits = {} THEN << >>
      ELSE <<fd[CHOOSE i \in hits : \A j \in hits : i <= j]>>

\* a cache that answers with an object that lost its stats
CacheGetWithoutStats(featureId) ==
  [featureDataCache[featureId] EXCEPT !.stats = NoStats]

\* featureDataCache.get(featureId) of a cached id
CacheGet(featureId) == featureDataCache[featureId]

\* a load that never looks into the cache
LoadStartWithoutCache(call, featureId) ==
  [call EXCEPT !.pc = "import", !.val = Null]

\* loadFeatureData up to its first suspension: a cached id is answered from
\* the cache, any other id starts an import()
LoadStart(call, featureId) ==
  IF featureId \in DOMAIN featureDataCache
  THEN [call EXCEPT !.pc = "ready", !.val = CacheGet(featureId)]
  ELSE [call EXCEPT !.pc = "import", !.val = Null]

LoadsAfterStart(featureId) ==
  IF featureId \in DOMAIN featureDataCache THEN loadsStarted
  ELSE [loadsStarted EXCEPT ![featureId] = @ + 1]

\* a call after loadFeatureData(featureId) has answered it with `value`:
\* Promise.all of a preload waits for the other loads it started
Settled(call, featureId, value) ==
  IF call.kind = "preload"
  THEN [call EXCEPT !.pending = @ \ {featureId},
                    !.pc = IF call.pending \ {featureId} = {}
                           THEN "ready" ELSE "import"]
  ELSE IF call.kind = "details"
  THEN LET r == IF "base" \in call.roles /\ call.base = featureId
                THEN "base" ELSE "target"
       IN  [call EXCEPT
              !.roles = @ \ {r},
              !.baseFeature = IF r = "base" THEN value ELSE @,
              !.targetFeature = IF r = "target" THEN value ELSE @,
              !.pc = IF call.roles \ {r} = {} THEN "ready" ELSE "import"]
  ELSE [call EXCEPT !.pc = "ready", !.val = value]

MayInvoke(c) ==
  /\ c <= slots
  /\ calls[c].pc = "idle"
  /\ IF c = 1 THEN TRUE ELSE calls[c - 1].pc # "idle"

\* a caller invokes getFeature(featureId)
GetFeature(c, featureId) ==
  /\ MayInvoke(c)
  /\ calls' = [calls EXCEPT ![c] =
                 LoadStart([IdleCall EXCEPT !.kind = "get", !.base = featureId,
                                            !.target = featureId], featureId)]
  /\ loadsStarted' = LoadsAfterStart(featureId)
  /\ UNCHANGED <<dataset, featureDataCache, nextObj, warnings, slots, app, display>>

\* a caller invokes checkCompatibility(baseFeatureId, targetFeatureId)
CheckCompatibility(c, baseFeatureId, targetFeatureId) ==
  /\ MayInvoke(c)
  /\ calls' = [calls EXCEPT ![c] =
                 LoadStart([IdleCall EXCEPT !.kind = "check",
                                            !.base = baseFeatureId,
                                            !.target = targetFeatureId],
                           baseFeatureId)]
  /\ loadsStarted' = LoadsAfterStart(baseFeatureId)
  /\ UNCHANGED <<dataset, featureDataCache, nextObj, warnings, slots, app, display>>

\* a preload that also loads the ids the cache holds
PreloadTargetsAll(featureIds) == featureIds

\* featureIds.filter((id) => !featureDataCache.has(id))
PreloadTargets(featureIds) ==
  {id \in featureIds : id \notin DOMAIN featureDataCache}

\* a caller invokes preloadFeatureData(featureIds): loadFeatureData is called
\* for every id the cache does not hold, and Promise.all awaits them all
PreloadFeatureData(c, featureIds) ==
  /\ MayInvoke(c)
  /\ calls' = [calls EXCEPT ![c] =
                 [IdleCall EXCEPT
                    !.kind = "preload",
                    !.ids = featureIds,
                    !.pending = PreloadTargets(featureIds),
                    !.pc = IF PreloadTargets(featureIds) = {}
                           THEN "ready" ELSE "import"]]
  /\ loadsStarted' = [id \in DOMAIN loadsStarted |->
                        IF id \in PreloadTargets(featureIds)
                        THEN loadsStarted[id] + 1 ELSE loadsStarted[id]]
  /\ UNCHANGED <<dataset, featureDataCache, nextObj, warnings, slots, app, display>>

\* the caller of a checkCompatibility call in progress stops waiting for it;
\* the service has no cancellation, so nothing else changes
Abandon(c) ==
  /\ calls[c].kind = "check"
  /\ calls[c].pc \in {"import", "ready"}
  /\ ~calls[c].abandoned
  /\ calls' = [calls EXCEPT ![c].abandoned = TRUE]
  /\ UNCHANGED <<dataset, featureDataCache, nextObj, loadsStarted, warnings, slots, app, display>>

\* a loader that remembers a failed import() in the cache
ImportFailsCachingNull(c) ==
  \E featureId \in InFlight(calls[c]) :
    /\ ~ImportSucceeds(featureId)
    /\ calls' = [calls EXCEPT ![c] = Settled(calls[c], featureId, Null)]
    /\ featureDataCache' = (featureId :> Null) @@ featureDataCache
    /\ warnings' = warnings + 1
    /\ UNCHANGED <<dataset, nextObj, loadsStarted, slots, app, display>>

\* an import() of a call fails: the catch block warns and returns null
ImportFails(c) ==
  \E featureId \in InFlight(calls[c]) :
    /\ ~ImportSucceeds(featureId)
    /\ calls' = [calls EXCEPT ![c] = Settled(calls[c], featureId, Null)]
    /\ warnings' = warnings + 1
    /\ UNCHANGED <<dataset, featureDataCache, nextObj, loadsStarted, slots, app, display>>

\* an import() of a call resolves, but the id has no catalog record
ImportWithoutMetadata(c) ==
  \E featureId \in InFlight(calls[c]) :
    /\ ImportSucceeds(featureId)
    /\ FeatureMetadata(featureId) = << >>
    /\ calls' = [calls EXCEPT ![c] = Settled(calls[c], featureId, Null)]
    /\ warnings' = warnings + 1
    /\ UNCHANGED <<dataset, featureDataCache, nextObj, loadsStarted, slots, app, display>>

\* a service that stops the loads of a call its caller has abandoned
ImportResolvesUnlessAbandoned(c) ==
  \E featureId \in InFlight(calls[c]) :
    /\ ~calls[c].abandoned
    /\ ImportSucceeds(featureId)
    /\ FeatureMetadata(featureId) # << >>
    /\ LET featureData ==
             [obj |-> nextObj,
              id |-> featureId,
              title |-> FeatureMetadata(featureId)[1].title,
              stats |-> dataset.files[SanitizedId(featureId)].stats]
       IN  /\ featureDataCache' = (featureId :> featureData) @@ featureDataCache
           /\ calls' = [calls EXCEPT ![c] =
                          Settled(calls[c], featureId, featureData)]
    /\ nextObj' = nextObj + 1
    /\ UNCHANGED <<dataset, loadsStarted, warnings, slots, app, display>>

\* an import() of a call resolves: a new FeatureData object is built, put
\* into the cache under the id, and returned
ImportResolves(c) ==
  \E featureId \in InFlight(calls[c]) :
    /\ ImportSucceeds(featureId)
    /\ FeatureMetadata(featureId) # << >>
    /\ LET featureData ==
             [obj |-> nextObj,
              id |-> featureId,
              title |-> FeatureMetadata(featureId)[1].title,
              stats |-> dataset.files[SanitizedId(featureId)].stats]
       IN  /\ featureDataCache' = (featureId :> featureData) @@ featureDataCache
           /\ calls' = [calls EXCEPT ![c] =
                          Settled(calls[c], featureId, featureData)]
    /\ nextObj' = nextObj + 1
    /\ UNCHANGED <<dataset, loadsStarted, warnings, slots, app, display>>

\* getFeature returns what loadFeatureData answered
GetFeatureReturns(c) ==
  /\ calls[c].kind = "get"
  /\ calls[c].pc = "ready"
  /\ calls' = [calls EXCEPT ![c].pc = "done", ![c].feature = calls[c].val]
  /\ UNCHANGED <<dataset, featureDataCache, nextObj, loadsStarted, warnings, slots, app, display>>

\* Promise.all of a preload has resolved
PreloadReturns(c) ==
  /\ calls[c].kind = "preload"
  /\ calls[c].pc = "ready"
  /\ calls' = [calls EXCEPT ![c].pc = "done"]
  /\ UNCHANGED <<dataset, featureDataCache, nextObj, loadsStarted, warnings, slots, app, display>>

\* checkCompatibility resumes with the base feature: it keeps the supporting
\* entries and asks for the target feature, or getBrowserSupportData throws
\* and the call is rejected
CheckBaseLoaded(c) ==
  /\ calls[c].kind = "check"
  /\ calls[c].pc = "ready"
  /\ calls[c].phase = "base"
  /\ IF FlattenThrows(calls[c].val)
     THEN /\ calls' = [calls EXCEPT ![c].pc = "rejected"]
          /\ UNCHANGED loadsStarted
     ELSE /\ calls' = [calls EXCEPT ![c] =
                         LoadStart([calls[c] EXCEPT
                                      !.phase = "target",
                                      !.supportingBrowsers =
                                         SupportingBrowsers(
                                           BrowserSupportDataOf(calls[c].val))],
                                   calls[c].target)]
          /\ loadsStarted' = LoadsAfterStart(calls[c].target)
  /\ UNCHANGED <<dataset, featureDataCache, nextObj, warnings, slots, app, display>>

\* checkCompatibility resumes with the target feature and returns its
\* result, or getBrowserSupportData throws and the call is rejected
CheckTargetLoaded(c) ==
  /\ calls[c].kind = "check"
  /\ calls[c].pc = "ready"
  /\ calls[c].phase = "target"
  /\ IF FlattenThrows(calls[c].val)
     THEN calls' = [calls EXCEPT ![c].pc = "rejected"]
     ELSE calls' = [calls EXCEPT
                      ![c].pc = "done",
                      ![c].result =
                         CompatibilityResultOf(calls[c].supportingBrowsers,
                                               BrowserSupportDataOf(calls[c].val))]
  /\ UNCHANGED <<dataset, featureDataCache, nextObj, loadsStarted, warnings, slots, app, display>>

InitWith(datasets, n) ==
  /\ dataset \in datasets
  /\ featureDataCache = << >>
  /\ nextObj = 1
  /\ loadsStarted = [id \in dataset.requestIds |-> 0]
  /\ warnings = 0
  /\ calls = [c \in 1..MaxCalls |-> IdleCall]
  /\ slots = n
  /\ app = NoApp
  /\ display = NoDisplay

Init == InitWith(MainDatasets, MaxCalls)

\* one call at a time over the generated matrices
EngineInit == InitWith(EngineDatasets, 1)

\* one call at a time over matrices with hyphens in their keys
KeysInit == InitWith(KeyDatasets, 1)

Next ==
  \E c \in 1..MaxCalls :
    \/ \E id \in dataset.requestIds : GetFeature(c, id)
    \/ \E b \in dataset.requestIds, t \in dataset.requestIds :
         CheckCompatibility(c, b, t)
    \/ \E ids \in SUBSET dataset.requestIds : PreloadFeatureData(c, ids)
    \/ Abandon(c)
    \/ ImportFails(c)
    \/ ImportWithoutMetadata(c)
    \/ ImportResolves(c)
    \/ GetFeatureReturns(c)
    \/ PreloadReturns(c)
    \/ CheckBaseLoaded(c)
    \/ CheckTargetLoaded(c)

Spec == Init /\ [][Next]_vars

SpecEngine == EngineInit /\ [][Next]_vars

SpecKeys == KeysInit /\ [][Next]_vars

\* the runtime settles every import() and resumes a checkCompatibility that
\* waits for its base feature; no load depends on any later resumption
Fairness ==
  \A c \in 1..MaxCalls :
    /\ WF_vars(ImportFails(c) \/ ImportWithoutMetadata(c) \/ ImportResolves(c))
    /\ WF_vars(CheckBaseLoaded(c))

SpecLive == Init /\ [][Next]_vars /\ Fairness

(***************************************************************************)
(* The catalog: getFeatureTitle and searchFeatures.  Both are synchronous, *)
(* a call is invoked and has returned within one step.                     *)
(***************************************************************************)

\* records of the catalog of the search specification
MaxCatalog == 51

\* searchIndex.search(query, { limit: 50 })
SearchLimit == 50

\* what getFeatureTitle returns in place of a title: null
NullTitle == <<"(null)">>

\* white space String.prototype.trim removes
WhiteSpace == {" ", "\t", "\n"}

\* query.trim()
Trim(s) ==
  LET keep == {i \in 1..Len(s) : s[i] \notin WhiteSpace}
  IN  IF keep = {} THEN << >>
      ELSE SubSeq(s, CHOOSE i \in keep : \A j \in keep : i <= j,
                     CHOOSE i \in keep : \A j \in keep : i >= j)

UpperCaseLetters ==
  <<"A", "B", "C", "D", "E", "F", "G", "H", "I", "J", "K", "L", "M",
    "N", "O", "P", "Q", "R", "S", "T", "U", "V", "W", "X", "Y", "Z">>

LowerCaseLetters ==
  <<"a", "b", "c", "d", "e", "f", "g", "h", "i", "j", "k", "l", "m",
    "n", "o", "p", "q", "r", "s", "t", "u", "v", "w", "x", "y", "z">>

\* the search index compares without regard to case
LowerCase(s) ==
  [i \in 1..Len(s) |->
     IF \E k \in 1..26 : UpperCaseLetters[k] = s[i]
     THEN LowerCaseLetters[CHOOSE k \in 1..26 : UpperCaseLetters[k] = s[i]]
     ELSE s[i]]

\* pattern occurs in text
Contains(text, pattern) ==
  \E i \in 0..(Len(text) - Len(pattern)) :
    SubSeq(text, i + 1, i + Len(pattern)) = pattern

\* keys: ['title', 'description', 'id']: the query occurs in one of the keys
\* of the record, which the index always reports as a match
ExactMatch(feature, query) ==
  \E key \in {"title", "description", "id"} \cap DOMAIN feature :
    Contains(LowerCase(feature[key]), LowerCase(query))

\* the members of a set of numbers, ascending and descending
Ascending(S) ==
  [k \in 1..Cardinality(S) |->
     CHOOSE i \in S : Cardinality({j \in S : j < i}) = k - 1]

Descending(S) ==
  [k \in 1..Cardinality(S) |->
     CHOOSE i \in S : Cardinality({j \in S : j > i}) = k - 1]

\* The rankings the index may give for a query: every record at most once,
\* the records the query occurs in first, in some order, and after them
\* the records the fuzzy matching accepts: here none of them or all.
FuseRankings(list, query) ==
  LET exact == {i \in 1..Len(list) : ExactMatch(list[i], query)}
      fuzzy == (1..Len(list)) \ exact
  IN  {Ascending(exact), Descending(exact),
       Ascending(exact) \o Ascending(fuzzy),
       Descending(exact) \o Descending(fuzzy)}

\* searchIndex.search: the best `limit` results of a ranking
FuseSearch(list, ranking, limit) ==
  [k \in 1..(IF Len(ranking) < limit THEN Len(ranking) ELSE limit) |->
     [item |-> list[ranking[k]], refIndex |-> ranking[k], score |-> k]]

\* feature?.title || featureDataCache.get(featureId)?.title || null
FeatureTitleOf(featureId) ==
  LET feature == FeatureMetadata(featureId)
  IN  IF feature # << >> /\ feature[1].title # << >> THEN feature[1].title
      ELSE IF featureId \in DOMAIN featureDataCache
              /\ featureDataCache[featureId].title # << >>
           THEN featureDataCache[featureId].title
           ELSE NullTitle

\* a caller invokes getFeatureTitle(featureId)
GetFeatureTitle(c, featureId) ==
  /\ MayInvoke(c)
  /\ calls' = [calls EXCEPT ![c] =
                 [IdleCall EXCEPT !.kind = "title", !.base = featureId,
                                  !.target = featureId, !.pc = "done",
                                  !.title = FeatureTitleOf(featureId)]]
  /\ UNCHANGED <<dataset, featureDataCache, nextObj, loadsStarted, warnings, slots, app, display>>

\* what searchFeatures returns for the results of the index
SearchReturned(query, found) ==
  [IdleCall EXCEPT !.kind = "search", !.query = query, !.pc = "done",
                   !.found = found]

\* a search that asks the index for every result
SearchFeaturesUnlimited(c, query) ==
  /\ MayInvoke(c)
  /\ IF Trim(query) = << >>
     THEN calls' = [calls EXCEPT ![c] =
                      SearchReturned(query, dataset.featuresData)]
     ELSE \E ranking \in FuseRankings(dataset.featuresData, query) :
            LET results == FuseSearch(dataset.featuresData, ranking,
                                      Len(dataset.featuresData))
            IN  calls' = [calls EXCEPT ![c] =
                            SearchReturned(query,
                              [k \in 1..Len(results) |-> results[k].item])]
  /\ UNCHANGED <<dataset, featureDataCache, nextObj, loadsStarted, warnings, slots, app, display>>

\* a search that tests the query without trimming it
SearchFeaturesUntrimmed(c, query) ==
  /\ MayInvoke(c)
  /\ IF query = << >>
     THEN calls' = [calls EXCEPT ![c] =
                      SearchReturned(query, dataset.featuresData)]
     ELSE \E ranking \in FuseRankings(dataset.featuresData, query) :
            LET results == FuseSearch(dataset.featuresData, ranking,
                                      SearchLimit)
            IN  calls' = [calls EXCEPT ![c] =
                            SearchReturned(query,
                              [k \in 1..Len(results) |-> results[k].item])]
  /\ UNCHANGED <<dataset, featureDataCache, nextObj, loadsStarted, warnings, slots, app, display>>

\* a caller invokes searchFeatures(query): a blank query returns
\* featuresData, any other query the items of the results of the index
SearchFeatures(c, query) ==
  /\ MayInvoke(c)
  /\ IF Trim(query) = << >>
     THEN calls' = [calls EXCEPT ![c] =
                      SearchReturned(query, dataset.featuresData)]
     ELSE \E ranking \in FuseRankings(dataset.featuresData, query) :
            LET results == FuseSearch(dataset.featuresData, ranking,
                                      SearchLimit)
            IN  calls' = [calls EXCEPT ![c] =
                            SearchReturned(query,
                              [k \in 1..Len(results) |-> results[k].item])]
  /\ UNCHANGED <<dataset, featureDataCache, nextObj, loadsStarted, warnings, slots, app, display>>

(***************************************************************************)
(* The browser names: getBrowserName, synchronous.                         *)
(***************************************************************************)

\* const browserNames: Record<string, string> = { ... }: the own properties
\* of the object literal, as <<key, value>> pairs
BrowserNameEntries ==
  <<<<<<"c", "h", "r", "o", "m", "e">>,
      <<"C", "h", "r", "o", "m", "e">>>>,
    <<<<"f", "i", "r", "e", "f", "o", "x">>,
      <<"F", "i", "r", "e", "f", "o", "x">>>>,
    <<<<"s", "a", "f", "a", "r", "i">>,
      <<"S", "a", "f", "a", "r", "i">>>>,
    <<<<"e", "d", "g", "e">>,
      <<"E", "d", "g", "e">>>>,
    <<<<"i", "e">>,
      <<"I", "E">>>>,
    <<<<"o", "p", "e", "r", "a">>,
      <<"O", "p", "e", "r", "a">>>>,
    <<<<"i", "o", "s", "_", "s", "a", "f">>,
      <<"i", "O", "S", " ", "S", "a", "f", "a", "r", "i">>>>,
    <<<<"a", "n", "d", "_", "c", "h", "r">>,
      <<"A", "n", "d", "r", "o", "i", "d", " ", "C", "h", "r", "o", "m", "e">>>>,
    <<<<"a", "n", "d", "_", "f", "f">>,
      <<"A", "n", "d", "r", "o", "i", "d", " ", "F", "i", "r", "e", "f", "o", "x">>>>,
    <<<<"s", "a", "m", "s", "u", "n", "g">>,
      <<"S", "a", "m", "s", "u", "n", "g", " ", "I", "n", "t", "e", "r", "n", "e", "t">>>>,
    <<<<"o", "p", "_", "m", "o", "b">>,
      <<"O", "p", "e", "r", "a", " ", "M", "o", "b", "i", "l", "e">>>>,
    <<<<"a", "n", "d", "_", "u", "c">>,
      <<"A", "n", "d", "r", "o", "i", "d", " ", "U", "C", " ", "B", "r", "o", "w", "s", "e", "r">>>>>>

\* the properties an object literal inherits from Object.prototype; all of
\* them are functions but __proto__, which is Object.prototype itself
ObjectPrototypeKeys ==
  {<<"c", "o", "n", "s", "t", "r", "u", "c", "t", "o", "r">>,
    <<"t", "o", "S", "t", "r", "i", "n", "g">>,
    <<"v", "a", "l", "u", "e", "O", "f">>,
    <<"h", "a", "s", "O", "w", "n", "P", "r", "o", "p", "e", "r", "t", "y">>,
    <<"i", "s", "P", "r", "o", "t", "o", "t", "y", "p", "e", "O", "f">>,
    <<"p", "r", "o", "p", "e", "r", "t", "y", "I", "s", "E", "n", "u", "m", "e", "r", "a", "b", "l", "e">>,
    <<"t", "o", "L", "o", "c", "a", "l", "e", "S", "t", "r", "i", "n", "g">>,
    <<"_", "_", "p", "r", "o", "t", "o", "_", "_">>,
    <<"_", "_", "d", "e", "f", "i", "n", "e", "G", "e", "t", "t", "e", "r", "_", "_">>,
    <<"_", "_", "d", "e", "f", "i", "n", "e", "S", "e", "t", "t", "e", "r", "_", "_">>,
    <<"_", "_", "l", "o", "o", "k", "u", "p", "G", "e", "t", "t", "e", "r", "_", "_">>,
    <<"_", "_", "l", "o", "o", "k", "u", "p", "S", "e", "t", "t", "e", "r", "_", "_">>}

\* what a property read gives that is no string
NotAString == <<"(not a string)">>

Undefined == <<"(undefined)">>

\* browserNames[browserId]: an own property, else a property of
\* Object.prototype, else undefined
BrowserNamesAt(browserId) ==
  IF \E i \in 1..Len(BrowserNameEntries) : BrowserNameEntries[i][1] = browserId
  THEN BrowserNameEntries[CHOOSE i \in 1..Len(BrowserNameEntries) :
                            BrowserNameEntries[i][1] = browserId][2]
  ELSE IF browserId \in ObjectPrototypeKeys THEN NotAString
  ELSE Undefined

\* if (browserNames[browserId]) return browserNames[browserId];
\* return browserId
BrowserNameOf(browserId) ==
  IF BrowserNamesAt(browserId) \notin {Undefined, << >>}
  THEN BrowserNamesAt(browserId)
  ELSE browserId

\* the browser ids callers ask the name of: those of the table, one no
\* table has, the empty id, and names of members of Object.prototype
BrowserIds ==
  {BrowserNameEntries[i][1] : i \in 1..Len(BrowserNameEntries)}
  \cup {<<"b", "r", "a", "v", "e">>, << >>,
        <<"c", "o", "n", "s", "t", "r", "u", "c", "t", "o", "r">>,
        <<"_", "_", "p", "r", "o", "t", "o", "_", "_">>}

\* a caller invokes getBrowserName(browserId)
GetBrowserName(c, browserId) ==
  /\ MayInvoke(c)
  /\ calls' = [calls EXCEPT ![c] =
                 [IdleCall EXCEPT !.kind = "name", !.browserId = browserId,
                                  !.pc = "done",
                                  !.name = BrowserNameOf(browserId)]]
  /\ UNCHANGED <<dataset, featureDataCache, nextObj, loadsStarted, warnings, slots, app, display>>

\* a catalog of MaxCatalog records: the two features with files, one of them
\* with a description, and generated records
CatalogDataset ==
  [featuresData |->
     [i \in 1..MaxCatalog |->
        IF i = 1
        THEN [id |-> IdGrid, title |-> TitleGrid,
              description |-> <<"c", "e", "l", "l", "s">>]
        ELSE IF i = 2 THEN [id |-> IdWebp, title |-> TitleWebp]
        ELSE [id |-> <<"f", "-">> \o NatStr(i),
              title |-> <<"F", "e", "a", "t", "u", "r", "e", " ">> \o NatStr(i)]],
   files |-> (SanitizedId(IdGrid) :>
                [parses |-> TRUE, stats |-> GenStats(<<<<"y">>, <<"y">>>>)])
             @@ (SanitizedId(IdWebp) :>
                [parses |-> TRUE, stats |-> GenStats(<<<<"y">>, <<"a">>>>)]),
   requestIds |-> {IdGrid, IdWebp, IdNope, IdDotted}]

\* the queries callers search for
Queries ==
  {<< >>, <<" ">>, <<" ", "\t">>,
   <<"g", "r", "i", "d">>, <<"G", "R", "I", "D">>, <<" ", "g", "r", "i", "d">>,
   <<"e">>, <<"x", "y", "z">>}

CatalogInit == InitWith({CatalogDataset}, MaxCalls)

\* the catalog beside the loads of getFeature, which fill the cache that
\* getFeatureTitle reads
NextCatalog ==
  \E c \in 1..MaxCalls :
    \/ \E featureId \in dataset.requestIds : GetFeature(c, featureId)
    \/ ImportFails(c)
    \/ ImportWithoutMetadata(c)
    \/ ImportResolves(c)
    \/ GetFeatureReturns(c)
    \/ \E featureId \in dataset.requestIds : GetFeatureTitle(c, featureId)
    \/ \E query \in Queries : SearchFeatures(c, query)
    \/ \E browserId \in BrowserIds : GetBrowserName(c, browserId)

SpecCatalog == CatalogInit /\ [][NextCatalog]_vars

\* the build script runs: features.json and the files of the features
\* directory are written
Main ==
  /\ ~dataset.built
  /\ dataset' = [dataset EXCEPT
                   !.featuresData = BuildCompatData(dataset.upstream).features,
                   !.files = FeatureFiles(BuildCompatData(dataset.upstream).data),
                   !.built = TRUE]
  /\ UNCHANGED <<featureDataCache, nextObj, loadsStarted, warnings, calls, slots, app, display>>

BuildInit == InitWith(UnbuiltDatasets, 1)

\* the build, and then the application over what it wrote
NextBuild ==
  \/ Main
  \/ \E c \in 1..MaxCalls :
       \/ /\ dataset.built
          /\ \E featureId \in dataset.requestIds : GetFeature(c, featureId)
       \/ ImportFails(c)
       \/ ImportWithoutMetadata(c)
       \/ ImportResolves(c)
       \/ GetFeatureReturns(c)

SpecBuild == BuildInit /\ [][NextBuild]_vars

(***************************************************************************)
(* The App component.  Three versions of it are in the sources: App.tsx    *)
(* from line 1 ("first") keeps the selected ids, App.tsx from line 213     *)
(* ("second") keeps the selected features as objects, and part_000         *)
(* ("unnamed") keeps the ids and no result.  The first two call the        *)
(* synchronous checkCompatibility and getFeature of the service, which     *)
(* change no state; their result is recorded by the pair it was computed   *)
(* for.  A state of the model is a committed render; `effects` says which  *)
(* effects of that render have not run yet.  The browser's history is the  *)
(* sequence of its entries, of which the search parameters base and target *)
(* are kept (searchParams.set and get encode and decode a value to         *)
(* itself), and the index of the current entry; `event` is the last thing  *)
(* the user did.                                                           *)
(***************************************************************************)
MaxHistory == 4

AppVariants == {"first", "second", "unnamed"}

NullCompatibility == [base |-> NullId, target |-> NullId]

SameFeatureError == "Choose two different features to compare"

UnableError == "Unable to analyze compatibility. Please try different features."

\* if (featureId): neither null nor the empty string
Truthy(featureId) == featureId \notin {NullId, << >>}

\* urlParams.get(paramName)
UrlParam(url, paramName) ==
  IF url[paramName] = Absent THEN NullId ELSE url[paramName]

\* the synchronous getFeature(featureId) finds the feature
KnownFeature(featureId) == FeatureMetadata(featureId) # << >>

\* getFeatureIdFromUrl, getFeatureFromUrl
GetFeatureIdFromUrl(variant, url, paramName) ==
  LET featureId == UrlParam(url, paramName)
  IN  IF variant = "unnamed" THEN featureId
      ELSE IF ~Truthy(featureId) THEN NullId
      ELSE IF ~KnownFeature(featureId) THEN NullId
      ELSE featureId

\* an updateUrl that never writes the target parameter
UpdateUrlBaseOnly(baseFeatureId, targetFeatureId) ==
  [base |-> IF Truthy(baseFeatureId) THEN baseFeatureId ELSE Absent,
   target |-> Absent]

\* the URL updateUrl pushes
UpdateUrl(baseFeatureId, targetFeatureId) ==
  [base |-> IF Truthy(baseFeatureId) THEN baseFeatureId ELSE Absent,
   target |-> IF Truthy(targetFeatureId) THEN targetFeatureId ELSE Absent]

\* window.history.pushState: the entries after the current one are dropped
PushState(a, url) ==
  [a EXCEPT !.history = Append(SubSeq(a.history, 1, a.index), url),
            !.index = a.index + 1]

\* the synchronous checkCompatibility: null when a feature is not found
CheckCompatibilitySync(baseFeatureId, targetFeatureId) ==
  IF KnownFeature(baseFeatureId) /\ KnownFeature(targetFeatureId)
  THEN [base |-> baseFeatureId, target |-> targetFeatureId]
  ELSE NullCompatibility

\* performCompatibilityCheck of the first version
PerformCompatibilityCheck(a) ==
  IF ~Truthy(a.baseFeatureId) \/ ~Truthy(a.targetFeatureId) THEN a
  ELSE IF a.baseFeatureId = a.targetFeatureId
  THEN [a EXCEPT !.error = SameFeatureError,
                 !.compatibilityResult = NullCompatibility]
  ELSE LET result == CheckCompatibilitySync(a.baseFeatureId, a.targetFeatureId)
       IN  IF result # NullCompatibility
           THEN [a EXCEPT !.error = "(null)", !.compatibilityResult = result]
           ELSE [a EXCEPT !.error = UnableError,
                          !.compatibilityResult = NullCompatibility]

\* handleCheckCompatibility of the second version, for two different features
HandleCheckCompatibility(a) ==
  LET result == CheckCompatibilitySync(a.baseFeatureId, a.targetFeatureId)
  IN  IF result # NullCompatibility
      THEN [a EXCEPT !.error = "(null)", !.compatibilityResult = result]
      ELSE [a EXCEPT !.error = UnableError]

\* the auto-check effect of the second version
AutoCheck(a) ==
  IF Truthy(a.baseFeatureId) /\ Truthy(a.targetFeatureId)
  THEN IF a.baseFeatureId # a.targetFeatureId
       THEN HandleCheckCompatibility(a)
       ELSE [a EXCEPT !.error = SameFeatureError,
                      !.compatibilityResult = NullCompatibility]
  ELSE [a EXCEPT !.error = "(null)",
                 !.compatibilityResult = NullCompatibility]

\* a dependency of the effects has changed: ids are compared by value, the
\* objects of the second version by identity, and each is a new object
DepChanged(variant, old, new) ==
  IF variant = "second" THEN ~(old = NullId /\ new = NullId) ELSE old # new

\* setBaseFeatureId and setTargetFeatureId in one batch, and the render
SetFeatureIds(a, baseFeatureId, targetFeatureId) ==
  [a EXCEPT !.baseFeatureId = baseFeatureId,
            !.targetFeatureId = targetFeatureId,
            !.effects =
               IF \/ DepChanged(a.variant, a.baseFeatureId, baseFeatureId)
                  \/ DepChanged(a.variant, a.targetFeatureId, targetFeatureId)
               THEN "update" ELSE "none"]

\* ResultsDisplay is part of the render
ResultsDisplayed(a) ==
  /\ Truthy(a.baseFeatureId)
  /\ Truthy(a.targetFeatureId)
  /\ a.variant # "unnamed" => a.compatibilityResult # NullCompatibility

\* handleSelect of FeatureSelector: the selected item again clears it
OnSelect(value, currentValue) ==
  IF currentValue = value THEN NullId ELSE currentValue

\* the features of the selector's list
SelectableIds == {id \in dataset.requestIds : KnownFeature(id)}

\* the effects of the committed render run, in the order of their
\* declaration: on mount initializeFromUrl, then updateUrl, then the
\* compatibility check; the state they set is rendered
RunEffects ==
  /\ app.effects # "none"
  /\ LET url == app.history[app.index]
         pushed == PushState(app, UpdateUrl(app.baseFeatureId,
                                            app.targetFeatureId))
         checked == IF app.variant = "first"
                    THEN PerformCompatibilityCheck(pushed)
                    ELSE IF app.variant = "second" THEN AutoCheck(pushed)
                    ELSE pushed
     IN  app' = IF app.effects = "mount"
                THEN SetFeatureIds(
                       checked,
                       GetFeatureIdFromUrl(app.variant, url, "base"),
                       GetFeatureIdFromUrl(app.variant, url, "target"))
                ELSE [checked EXCEPT !.effects = "none"]
  /\ UNCHANGED <<dataset, featureDataCache, nextObj, loadsStarted, warnings,
                 calls, slots, display>>

\* the user picks an item of the base selector, or clears it
SelectBase(value) ==
  /\ app.effects = "none"
  /\ app.index < MaxHistory
  /\ app' = SetFeatureIds([app EXCEPT !.event = "select"],
                          value, app.targetFeatureId)
  /\ UNCHANGED <<dataset, featureDataCache, nextObj, loadsStarted, warnings,
                 calls, slots, display>>

\* the user picks an item of the target selector, or clears it
SelectTarget(value) ==
  /\ app.effects = "none"
  /\ app.index < MaxHistory
  /\ app' = SetFeatureIds([app EXCEPT !.event = "select"],
                          app.baseFeatureId, value)
  /\ UNCHANGED <<dataset, featureDataCache, nextObj, loadsStarted, warnings,
                 calls, slots, display>>

\* handleReset of the second version
HandleReset ==
  /\ app.variant = "second"
  /\ app.effects = "none"
  /\ app.index < MaxHistory
  /\ \/ Truthy(app.baseFeatureId)
     \/ Truthy(app.targetFeatureId)
     \/ app.compatibilityResult # NullCompatibility
  /\ app' = [SetFeatureIds([app EXCEPT !.event = "reset"], NullId, NullId)
               EXCEPT !.compatibilityResult = NullCompatibility,
                      !.error = "(null)"]
  /\ UNCHANGED <<dataset, featureDataCache, nextObj, loadsStarted, warnings,
                 calls, slots, display>>

\* the user goes back or forward to the entry k: handlePopState
PopState(k) ==
  /\ app.effects = "none"
  /\ k \in 1..Len(app.history)
  /\ k # app.index
  /\ k < MaxHistory
  /\ app' = SetFeatureIds(
              [app EXCEPT !.index = k, !.event = "popstate"],
              GetFeatureIdFromUrl(app.variant, app.history[k], "base"),
              GetFeatureIdFromUrl(app.variant, app.history[k], "target"))
  /\ UNCHANGED <<dataset, featureDataCache, nextObj, loadsStarted, warnings,
                 calls, slots, display>>

\* the values of a search parameter of the URL the page is opened with
OpenedParams == {Absent, << >>, IdGrid, IdWebp, IdNope}

\* the first render of App, for the URL the page is opened with
AppInit ==
  /\ dataset = ExampleDataset
  /\ featureDataCache = << >>
  /\ nextObj = 1
  /\ loadsStarted = [id \in dataset.requestIds |-> 0]
  /\ warnings = 0
  /\ calls = [c \in 1..MaxCalls |-> IdleCall]
  /\ slots = 0
  /\ \E variant \in AppVariants, base \in OpenedParams, target \in OpenedParams :
       app = [NoApp EXCEPT !.variant = variant,
                           !.effects = "mount",
                           !.event = "open",
                           !.history = <<[base |-> base, target |-> target]>>,
                           !.index = 1]
  /\ display = NoDisplay

NextApp ==
  \/ RunEffects
  \/ \E value \in SelectableIds \cup {NullId} :
       SelectBase(OnSelect(app.baseFeatureId, value))
  \/ \E value \in SelectableIds \cup {NullId} :
       SelectTarget(OnSelect(app.targetFeatureId, value))
  \/ HandleReset
  \/ \E k \in 1..MaxHistory : PopState(k)

SpecApp == AppInit /\ [][NextApp]_vars

\* React runs the effects of every render it commits
SpecAppLive == AppInit /\ [][NextApp]_vars /\ WF_vars(RunEffects)

(***************************************************************************)
(* The ResultsDisplay component: its effect loads the details of the two   *)
(* features whenever an id of its props changes, and sets its state when   *)
(* both getFeature calls have answered.                                    *)
(***************************************************************************)
\* loadFeatures after its await: setBaseFeature, setTargetFeature, and
\* setLoading(false) in the finally block
LoadFeaturesApplies(call) ==
  [display EXCEPT !.baseFeature = call.baseFeature,
                  !.targetFeature = call.targetFeature,
                  !.loading = FALSE]

\* loadFeatures up to its await: Promise.all of two getFeature calls, each
\* answered from the cache or starting an import() of its own
LoadFeaturesStart(baseFeatureId, targetFeatureId) ==
  LET roles == {r \in {"base", "target"} :
                  (IF r = "base" THEN baseFeatureId ELSE targetFeatureId)
                    \notin DOMAIN featureDataCache}
  IN  [IdleCall EXCEPT
         !.kind = "details",
         !.base = baseFeatureId,
         !.target = targetFeatureId,
         !.roles = roles,
         !.baseFeature = IF "base" \in roles THEN Null
                         ELSE CacheGet(baseFeatureId),
         !.targetFeature = IF "target" \in roles THEN Null
                           ELSE CacheGet(targetFeatureId),
         !.pc = IF roles = {} THEN "ready" ELSE "import"]

\* App renders ResultsDisplay with ids that differ from those of its last
\* render, or for the first time: the effect runs loadFeatures.  A
\* loadFeatures whose Promise.all has resolved continues in a microtask,
\* before another render
RenderResultsDisplay(c, baseFeatureId, targetFeatureId) ==
  /\ MayInvoke(c)
  /\ \A d \in 1..MaxCalls : calls[d].pc # "ready"
  /\ \/ ~display.mounted
     \/ display.baseFeatureId # baseFeatureId
     \/ display.targetFeatureId # targetFeatureId
  /\ display' = [display EXCEPT !.mounted = TRUE,
                                !.baseFeatureId = baseFeatureId,
                                !.targetFeatureId = targetFeatureId,
                                !.loading = TRUE,
                                !.error = "(null)"]
  /\ calls' = [calls EXCEPT ![c] =
                 LoadFeaturesStart(baseFeatureId, targetFeatureId)]
  /\ loadsStarted' =
       [id \in DOMAIN loadsStarted |->
          loadsStarted[id]
          + (IF id = baseFeatureId /\ id \notin DOMAIN featureDataCache
             THEN 1 ELSE 0)
          + (IF id = targetFeatureId /\ id \notin DOMAIN featureDataCache
             THEN 1 ELSE 0)]
  /\ UNCHANGED <<dataset, featureDataCache, nextObj, warnings, slots, app>>

\* Promise.all of a loadFeatures has resolved: it sets the state
LoadFeaturesResumes(c) ==
  /\ calls[c].kind = "details"
  /\ calls[c].pc = "ready"
  /\ display' = LoadFeaturesApplies(calls[c])
  /\ calls' = [calls EXCEPT ![c].pc = "done"]
  /\ UNCHANGED <<dataset, featureDataCache, nextObj, loadsStarted, warnings,
                 slots, app>>

NextDisplay ==
  \E c \in 1..MaxCalls :
    \/ \E b \in dataset.requestIds, t \in dataset.requestIds :
         RenderResultsDisplay(c, b, t)
    \/ ImportFails(c)
    \/ ImportWithoutMetadata(c)
    \/ ImportResolves(c)
    \/ LoadFeaturesResumes(c)

SpecDisplay == Init /\ [][NextDisplay]_vars

(***************************************************************************)
(* Properties.  What a call was asked and what the dataset holds is read   *)
(* off the state; the definitions below restate the dataset without the    *)
(* operators of the engine.                                                *)
(***************************************************************************)
\* the calls of a kind that have returned
Returned(kind) ==
  {c \in 1..MaxCalls : calls[c].kind = kind /\ calls[c].pc = "done"}

\* the id has a catalog record and a file
Loadable(featureId) ==
  /\ SanitizedId(featureId) \in DOMAIN dataset.files
  /\ dataset.files[SanitizedId(featureId)].parses
  /\ \E i \in 1..Len(dataset.featuresData) :
       dataset.featuresData[i].id = featureId

\* the <<browserId, version, raw code>> triples of the matrix of an id
RawEntries(featureId) ==
  IF ~Loadable(featureId) THEN {}
  ELSE LET stats == dataset.files[SanitizedId(featureId)].stats
       IN  IF ~stats.defined THEN {}
           ELSE UNION {{<<stats.browsers[i].browserId,
                          stats.browsers[i].versions[j].version,
                          stats.browsers[i].versions[j].support>> :
                          j \in 1..Len(stats.browsers[i].versions)} :
                       i \in 1..Len(stats.browsers)}

\* the <<browserId, version>> pairs an id has the code 'y' for
FullPairs(featureId) ==
  {<<e[1], e[2]>> : e \in {x \in RawEntries(featureId) : x[3] = <<"y">>}}

\* the raw codes the matrix of an id has for a pair
CodesAt(featureId, browserId, version) ==
  {e[3] : e \in {x \in RawEntries(featureId) :
                   x[1] = browserId /\ x[2] = version}}

\* both ids of a call can be loaded
BothLoadable(c) == Loadable(calls[c].base) /\ Loadable(calls[c].target)

\* the number of entries of a sequence of entries at a support level
CountAt(entries, level) ==
  Cardinality({i \in 1..Len(entries) : entries[i].supportLevel = level})

\* limb sequences denoting the same number
SameLimbs(a, b) ==
  \A i \in 1..(Len(a) + Len(b)) : Limb(a, i) = Limb(b, i)

\* the double x times total, and 100 * count in the unit of that product
Scaled(x, total) == MulSmall(x.man, total)

Wanted(x, count) == ShiftLeft(<<100 * count>>, (MantBits - 1) - x.exp)

\* the double x is exactly the rational 100 * count / total
ExactPercentage(x, count, total) ==
  IF count = 0 THEN x = FZero
  ELSE /\ x.kind = "num"
       /\ SameLimbs(Scaled(x, total), Wanted(x, count))

\* the double x is within two units in the last place of 100 * count / total
NearPercentage(x, count, total) ==
  IF count = 0 THEN x = FZero
  ELSE /\ x.kind = "num"
       /\ \E k \in 0..(2 * total) :
            \/ SameLimbs(AddLimbs(Scaled(x, total), <<k>>), Wanted(x, count))
            \/ SameLimbs(Scaled(x, total), AddLimbs(Wanted(x, count), <<k>>))

(***************************************************************************)
(* C1: concurrent getFeature(id) calls for one id start exactly one load   *)
(* of its file and resolve to the same object: no loadable id ever has     *)
(* more than one import() started, and any two returned calls for the same *)
(* id hold the same object.                                                *)
(***************************************************************************)
C1_OneLoadPerId ==
  /\ \A id \in DOMAIN loadsStarted : Loadable(id) => loadsStarted[id] <= 1
  /\ \A c1 \in Returned("get"), c2 \in Returned("get") :
       (calls[c1].base = calls[c2].base /\ Loadable(calls[c1].base))
         => calls[c1].feature.obj = calls[c2].feature.obj

(***************************************************************************)
(* C2: checkCompatibility returns the not-found signal, never a classified *)
(* result, when the base or the target id cannot be loaded.                *)
(***************************************************************************)
C2_NotFoundWhenUnloadable ==
  \A c \in Returned("check") :
    ~BothLoadable(c)
      => calls[c].result.compatible \notin {"full", "partial", "none"}

(***************************************************************************)
(* C3: the classification boundaries are exact: every supporting entry at  *)
(* full in the target gives full; otherwise a combined full + partial      *)
(* share of at least 70% of the supporting set gives partial, and a share  *)
(* strictly below 70% gives none.                                          *)
(***************************************************************************)
C3_ExactBoundaries ==
  \A c \in Returned("check") :
    BothLoadable(c) =>
      LET r == calls[c].result
          totalCount == Len(r.baseFeatureBrowsers)
      IN  r.compatible =
            IF totalCount > 0 /\ r.counts.full = totalCount THEN "full"
            ELSE IF /\ totalCount > 0
                    /\ 100 * (r.counts.full + r.counts.partial)
                         >= PartialThreshold * totalCount
                 THEN "partial"
                 ELSE "none"

(***************************************************************************)
(* C4: the supporting set of a returned check is exactly the set of        *)
(* (browserId, version) pairs the base matrix has at full support, every   *)
(* entry of it is at level full, and totalCount counts these pairs only.   *)
(***************************************************************************)
C4_SupportingSetIsFullOnly ==
  \A c \in Returned("check") :
    Loadable(calls[c].base) =>
      LET r == calls[c].result
          n == Len(r.baseFeatureBrowsers)
      IN  /\ {<<r.baseFeatureBrowsers[i].browserId,
                r.baseFeatureBrowsers[i].version>> : i \in 1..n}
               = FullPairs(calls[c].base)
          /\ n = Cardinality(FullPairs(calls[c].base))
          /\ \A i \in 1..n : r.baseFeatureBrowsers[i].supportLevel = "full"
          /\ r.counts.full + r.counts.partial + r.counts.none = n

\* a check returned whose base matrix has full and partial entries
C4_Witness ==
  \E c \in Returned("check") :
    /\ Loadable(calls[c].base)
    /\ FullPairs(calls[c].base) # {}
    /\ \E e \in RawEntries(calls[c].base) : e[3] = <<"a">>

TalliedOverSupportingSet(c) ==
  LET r == calls[c].result
      at(code) ==
        Cardinality({pair \in FullPairs(calls[c].base) :
                       CodesAt(calls[c].target, pair[1], pair[2]) = {code}})
  IN  /\ Len(r.baseFeatureBrowsers) = Cardinality(FullPairs(calls[c].base))
      /\ r.counts.full = at(<<"y">>)
      /\ r.counts.full + r.counts.partial + r.counts.none
           = Cardinality(FullPairs(calls[c].base))

\* the check of the example of the specification has returned
ExampleReturned(c) ==
  /\ c \in Returned("check")
  /\ dataset = ExampleDataset
  /\ calls[c].base = IdGrid
  /\ calls[c].target = IdWebp

\* the result the specification gives for its example
ExampleResult(c) ==
  /\ Len(calls[c].result.baseFeatureBrowsers) = 8
  /\ calls[c].result.fullSupportPercentage = FromNat(75)
  /\ calls[c].result.partialSupportPercentage = FZero
  /\ calls[c].result.compatible = "partial"

(***************************************************************************)
(* C6 as stated: with a non-empty supporting set, fullSupportPercentage    *)
(* is exactly 100 * fullCount / totalCount and partialSupportPercentage    *)
(* exactly 100 * partialCount / totalCount, the counts tallied over the    *)
(* supporting set; the example gives 8 entries, 75, 0 and partial.         *)
(***************************************************************************)
C6_ExactPercentages ==
  \A c \in Returned("check") :
    /\ (BothLoadable(c) /\ calls[c].result.baseFeatureBrowsers # << >>) =>
         LET r == calls[c].result
             totalCount == Len(r.baseFeatureBrowsers)
         IN  /\ TalliedOverSupportingSet(c)
             /\ ExactPercentage(r.fullSupportPercentage,
                                r.counts.full, totalCount)
             /\ ExactPercentage(r.partialSupportPercentage,
                                r.counts.partial, totalCount)
    /\ ExampleReturned(c) => ExampleResult(c)

(***************************************************************************)
(* C6 amended: with a non-empty supporting set, the two percentages are    *)
(* the doubles (count / totalCount) * 100, which lie within two units in   *)
(* the last place of 100 * fullCount / totalCount and of                   *)
(* 100 * partialCount / totalCount, the counts tallied over the supporting *)
(* set; the example gives 8 entries, exactly 75, 0 and partial.            *)
(***************************************************************************)
C6_PercentagesUpToRounding ==
  \A c \in Returned("check") :
    /\ (BothLoadable(c) /\ calls[c].result.baseFeatureBrowsers # << >>) =>
         LET r == calls[c].result
             totalCount == Len(r.baseFeatureBrowsers)
         IN  /\ TalliedOverSupportingSet(c)
             /\ NearPercentage(r.fullSupportPercentage,
                               r.counts.full, totalCount)
             /\ NearPercentage(r.partialSupportPercentage,
                               r.counts.partial, totalCount)
    /\ ExampleReturned(c) => ExampleResult(c)

\* a check returned whose percentages are no whole numbers: one full and
\* one partial entry out of three
C6_Witness ==
  \E c \in Returned("check") :
    /\ BothLoadable(c)
    /\ Len(calls[c].result.baseFeatureBrowsers) = 3
    /\ calls[c].result.counts.full = 1
    /\ calls[c].result.counts.partial = 1
    /\ calls[c].result.fullSupportPercentage.kind = "num"

C8_EmptySupportingSet ==
  \A c \in Returned("check") :
    (BothLoadable(c) /\ FullPairs(calls[c].base) = {}) =>
      /\ calls[c].result.baseFeatureBrowsers = << >>
      /\ calls[c].result.overlappingSupport = << >>
      /\ calls[c].result.counts = [full |-> 0, partial |-> 0, none |-> 0]
      /\ calls[c].result.fullSupportPercentage = FZero
      /\ calls[c].result.partialSupportPercentage = FZero
      /\ calls[c].result.compatible = "none"

\* a check returned whose base has entries, none of them full, and whose
\* target has full entries
C8_Witness ==
  \E c \in Returned("check") :
    /\ BothLoadable(c)
    /\ RawEntries(calls[c].base) # {}
    /\ FullPairs(calls[c].base) = {}
    /\ FullPairs(calls[c].target) # {}

(***************************************************************************)
(* C9: with the dataset unchanged, any two returned checkCompatibility     *)
(* calls with the same (baseId, targetId) hold value-equal results,        *)
(* whatever the cache held and in whatever order their loads completed.    *)
(***************************************************************************)
C9_Deterministic ==
  \A c1 \in Returned("check"), c2 \in Returned("check") :
    (calls[c1].base = calls[c2].base /\ calls[c1].target = calls[c2].target)
      => calls[c1].result = calls[c2].result

\* two checks of the same two loadable features returned after both had
\* started their own load of the base feature
C9_Witness ==
  \E c1 \in Returned("check"), c2 \in Returned("check") :
    /\ c1 # c2
    /\ calls[c1].base = calls[c2].base
    /\ calls[c1].target = calls[c2].target
    /\ calls[c1].base # calls[c1].target
    /\ BothLoadable(c1)
    /\ loadsStarted[calls[c1].base] >= 2
    /\ calls[c1].result.compatible = "partial"

\* the level the mapping rule gives a raw code
SpecifiedLevel(support) ==
  IF support = <<"y">> THEN "full"
  ELSE IF support = <<"n">> THEN "none"
  ELSE IF \E i \in 1..Len(support) : support[i] \in {"a", "p", "x"}
       THEN "partial"
       ELSE "none"

(***************************************************************************)
(* C10: every raw support code maps to one level: 'y' to full, 'n' to      *)
(* none, 'a', 'p', 'x' and any code containing one of them to partial,     *)
(* every other code to none.                                               *)
(***************************************************************************)
C10_CodesMapAsSpecified ==
  \A c \in Returned("check") :
    \A i \in 1..Len(calls[c].result.targetFeatureSupport) :
      calls[c].result.targetFeatureSupport[i].supportLevel
        = SpecifiedLevel(calls[c].result.targetFeatureSupport[i].support)

\* the file of an id exists, can be read and holds a support matrix
ArtifactSound(featureId) ==
  /\ Loadable(featureId)
  /\ dataset.files[SanitizedId(featureId)].stats.defined
  /\ \A b \in {dataset.files[SanitizedId(featureId)].stats.browsers[i] :
                 i \in 1..Len(dataset.files[SanitizedId(featureId)].stats.browsers)} :
       b.versions # NullVersions

(***************************************************************************)
(* C11: getFeature(id) for an id whose file is missing or malformed        *)
(* returns null, and the failure has been logged.                          *)
(***************************************************************************)
C11_NotFoundWhenMissingOrMalformed ==
  \A c \in Returned("get") :
    ~ArtifactSound(calls[c].base) =>
      /\ calls[c].feature = Null
      /\ warnings >= 1

\* the file of an id can be read but holds no support matrix
IllShaped(featureId) == Loadable(featureId) /\ ~ArtifactSound(featureId)

\* the checkCompatibility calls that have returned or have been rejected
Ended(kind) ==
  {c \in 1..MaxCalls :
     calls[c].kind = kind /\ calls[c].pc \in {"done", "rejected"}}

(***************************************************************************)
(* C12: a file that is present but ill-shaped is treated as an empty       *)
(* matrix: a check with it as base returns with an empty supporting set,   *)
(* a check with it as target returns with no target entries and every      *)
(* overlap entry at level none.                                            *)
(***************************************************************************)
C12_IllShapedIsEmptyMatrix ==
  \A c \in Ended("check") :
    /\ IllShaped(calls[c].base) =>
         /\ calls[c].pc = "done"
         /\ calls[c].result.baseFeatureBrowsers = << >>
    /\ IllShaped(calls[c].target) =>
         /\ calls[c].pc = "done"
         /\ calls[c].result.targetFeatureSupport = << >>
         /\ \A i \in 1..Len(calls[c].result.overlappingSupport) :
              calls[c].result.overlappingSupport[i].supportLevel = "none"

\* a getFeature call has returned a feature for the id
GotFeature(featureId) ==
  \E c \in Returned("get") :
    calls[c].base = featureId /\ calls[c].feature # Null

(***************************************************************************)
(* C13: once a getFeature(id) has returned a feature, every getFeature(id) *)
(* invoked later is answered at once with the value the cache holds for    *)
(* the id, and starts no import().                                         *)
(***************************************************************************)
C13_LaterGetIsCacheHit ==
  [][\A c \in 1..MaxCalls :
       (/\ calls[c].pc = "idle"
        /\ calls'[c].kind = "get"
        /\ GotFeature(calls'[c].base))
         => /\ calls'[c].pc = "ready"
            /\ calls'[c].val = featureDataCache[calls'[c].base]
            /\ calls'[c].val.id = calls'[c].base
            /\ loadsStarted' = loadsStarted
            /\ featureDataCache' = featureDataCache]_vars

\* a getFeature returned a feature and a later getFeature of the same id
\* returned too, with one import() started for the id
C13_Witness ==
  \E c1 \in Returned("get"), c2 \in Returned("get") :
    /\ c1 < c2
    /\ calls[c1].base = calls[c2].base
    /\ calls[c1].feature # Null
    /\ calls[c2].feature = calls[c1].feature
    /\ loadsStarted[calls[c1].base] = 1

(***************************************************************************)
(* C14: the cache is insert-only: in every step, every id the cache holds  *)
(* is still held afterwards, with the same object.                         *)
(***************************************************************************)
C14_CacheInsertOnly ==
  [][\A id \in DOMAIN featureDataCache :
       /\ id \in DOMAIN featureDataCache'
       /\ featureDataCache'[id] = featureDataCache[id]]_vars

\* the ids callers ask for
AllIds == {IdGrid, IdWebp, IdNope, IdDotted}

(***************************************************************************)
(* C15: when the caller of a checkCompatibility call has abandoned it,     *)
(* the call still goes on from its base feature to its target feature,     *)
(* every import() it waits for is settled, and an import of a loadable id  *)
(* leads to the id being in the cache.                                     *)
(***************************************************************************)
C15_AbandonedLoadsComplete ==
  \A c \in 1..MaxCalls :
    /\ (calls[c].abandoned /\ calls[c].phase = "base")
         ~> (calls[c].phase = "target" \/ calls[c].pc = "rejected")
    /\ \A id \in AllIds :
         /\ (calls[c].abandoned /\ id \in InFlight(calls[c]))
              ~> (id \notin InFlight(calls[c]))
         /\ (calls[c].abandoned /\ id \in InFlight(calls[c]) /\ Loadable(id))
              ~> (id \in DOMAIN featureDataCache)

\* an abandoned check has returned, and the two features it alone loaded
\* are in the cache
C15_Witness ==
  /\ calls[1].kind = "check"
  /\ calls[1].abandoned
  /\ calls[1].pc = "done"
  /\ calls[1].base # calls[1].target
  /\ calls[2].pc = "idle"
  /\ {calls[1].base, calls[1].target} \subseteq DOMAIN featureDataCache
  /\ loadsStarted[calls[1].base] = 1
  /\ loadsStarted[calls[1].target] = 1

(***************************************************************************)
(* C16: preloadFeatureData(featureIds) starts one load for every id of     *)
(* featureIds the cache does not hold and no load for an id it holds; when *)
(* its Promise.all has resolved every loadable id of featureIds is in the  *)
(* cache, whatever became of the other ids; and a loadable id it waits for *)
(* gets into the cache in whatever order the imports are settled.          *)
(***************************************************************************)
C16_PreloadLoadsUncachedIndependently ==
  /\ [][\A c \in 1..MaxCalls :
          (calls[c].pc = "idle" /\ calls'[c].kind = "preload") =>
            /\ calls'[c].pending = calls'[c].ids \ DOMAIN featureDataCache
            /\ \A id \in DOMAIN loadsStarted :
                 loadsStarted'[id] =
                   loadsStarted[id]
                   + (IF id \in calls'[c].ids \ DOMAIN featureDataCache
                      THEN 1 ELSE 0)]_vars
  /\ [](\A c \in 1..MaxCalls :
          (calls[c].kind = "preload" /\ calls[c].pc \in {"ready", "done"}) =>
            \A id \in calls[c].ids :
              Loadable(id) => id \in DOMAIN featureDataCache)
  /\ \A c \in 1..MaxCalls, id \in AllIds :
       (calls[c].kind = "preload" /\ id \in calls[c].pending /\ Loadable(id))
         ~> (id \in DOMAIN featureDataCache)

\* a preload of a loadable id and of an id without a file has returned: one
\* load each, the first id is in the cache, the failure of the other warned
C16_Witness ==
  /\ calls[1].kind = "preload"
  /\ calls[1].pc = "done"
  /\ calls[2].pc = "idle"
  /\ calls[1].ids = {IdGrid, IdNope}
  /\ IdGrid \in DOMAIN featureDataCache
  /\ IdNope \notin DOMAIN featureDataCache
  /\ loadsStarted[IdGrid] = 1
  /\ loadsStarted[IdNope] = 1
  /\ warnings = 1

\* the <<browserId, version, raw code>> triples of a sequence of entries
TriplesOf(entries) ==
  {<<entries[i].browserId, entries[i].version, entries[i].support>> :
     i \in 1..Len(entries)}

\* an entry has the four fields of BrowserSupport, its level the one of its
\* raw code
WellFormedEntries(entries) ==
  \A i \in 1..Len(entries) :
    /\ DOMAIN entries[i] = {"browserId", "version", "support", "supportLevel"}
    /\ entries[i].supportLevel \in {"full", "partial", "none"}
    /\ entries[i].supportLevel = SupportLevelOf(entries[i].support)

\* the triples of the matrix of an id that are at full support
SupportingTriples(featureId) ==
  {e \in RawEntries(featureId) : SupportLevelOf(e[3]) = "full"}

(***************************************************************************)
(* C17: the result checkCompatibility returns holds exactly the entries of *)
(* the base matrix at full support, every entry of the target matrix once, *)
(* and one overlap entry per supporting entry for the same browser and     *)
(* version; every entry has browserId, version, support and supportLevel.  *)
(***************************************************************************)
C17_ResultHoldsBothMatrices ==
  \A c \in Returned("check") :
    LET r == calls[c].result
        n == Len(r.baseFeatureBrowsers)
    IN  /\ TriplesOf(r.baseFeatureBrowsers) = SupportingTriples(calls[c].base)
        /\ n = Cardinality(SupportingTriples(calls[c].base))
        /\ TriplesOf(r.targetFeatureSupport) = RawEntries(calls[c].target)
        /\ Len(r.targetFeatureSupport)
             = Cardinality(RawEntries(calls[c].target))
        /\ Len(r.overlappingSupport) = n
        /\ \A i \in 1..n :
             /\ r.overlappingSupport[i].browserId
                  = r.baseFeatureBrowsers[i].browserId
             /\ r.overlappingSupport[i].version
                  = r.baseFeatureBrowsers[i].version
        /\ WellFormedEntries(r.baseFeatureBrowsers)
        /\ WellFormedEntries(r.targetFeatureSupport)
        /\ WellFormedEntries(r.overlappingSupport)

\* a check returned whose base matrix has entries outside the supporting
\* set, whose target matrix has entries outside the overlap, and whose
\* overlap has an entry the target matrix lacks
C17_Witness ==
  \E c \in Returned("check") :
    /\ BothLoadable(c)
    /\ SupportingTriples(calls[c].base) # {}
    /\ SupportingTriples(calls[c].base) # RawEntries(calls[c].base)
    /\ \E e \in RawEntries(calls[c].target) :
         \A s \in SupportingTriples(calls[c].base) :
           <<s[1], s[2]>> # <<e[1], e[2]>>
    /\ \E s \in SupportingTriples(calls[c].base) :
         CodesAt(calls[c].target, s[1], s[2]) = {}
    /\ \E i \in 1..Len(calls[c].result.overlappingSupport) :
         \A j \in 1..Len(calls[c].result.targetFeatureSupport) :
           calls[c].result.targetFeatureSupport[j]
             # calls[c].result.overlappingSupport[i]

(***************************************************************************)
(* C18: getFeatureTitle returns the catalog title of an id the catalog     *)
(* has a record for, and the id itself for any other id; it never returns  *)
(* null or an empty string.                                                *)
(***************************************************************************)
C18_TitleOrId ==
  \A c \in Returned("title") :
    /\ calls[c].title =
         (IF FeatureMetadata(calls[c].base) # << >>
          THEN FeatureMetadata(calls[c].base)[1].title
          ELSE calls[c].base)
    /\ calls[c].title # NullTitle
    /\ calls[c].title # << >>

\* the query is empty or white space only
Blank(query) == \A i \in 1..Len(query) : query[i] \in WhiteSpace

(***************************************************************************)
(* C19: searchFeatures with an empty or white-space-only query returns     *)
(* featuresData itself: every record, in catalog order, the same sequence  *)
(* at every call.                                                          *)
(***************************************************************************)
C19_BlankQueryIsAll ==
  \A c \in Returned("search") :
    Blank(calls[c].query) => calls[c].found = dataset.featuresData

\* two searches have returned, one for the empty query and one for a query
\* of white space, both with the whole catalog
C19_Witness ==
  /\ calls[1].kind = "search"
  /\ calls[2].kind = "search"
  /\ calls[1].query = << >>
  /\ calls[2].query = <<" ", "\t">>
  /\ calls[1].found = calls[2].found
  /\ Len(calls[1].found) = MaxCatalog
  /\ calls[2].found[1].id = IdGrid

KnownBrowserIds ==
  {BrowserNameEntries[i][1] : i \in 1..Len(BrowserNameEntries)}

(***************************************************************************)
(* C21: getBrowserName returns the name the table has for a browser id of  *)
(* the table and the id itself for every other id; the value is a string   *)
(* and nothing but the call changes.                                       *)
(***************************************************************************)
C21_NameOrId ==
  \A c \in Returned("name") :
    /\ calls[c].browserId \in KnownBrowserIds =>
         \E i \in 1..Len(BrowserNameEntries) :
           /\ BrowserNameEntries[i][1] = calls[c].browserId
           /\ BrowserNameEntries[i][2] = calls[c].name
    /\ calls[c].browserId \notin KnownBrowserIds =>
         calls[c].name = calls[c].browserId

\* the sum the classification and the summary text take of the percentages
PercentageSum(r) == FAdd(r.fullSupportPercentage, r.partialSupportPercentage)

\* the double next above 100
NextAboveHundred ==
  [FromNat(100) EXCEPT
     !.man = [i \in 1..ManLimbs |-> AddLimbs(FromNat(100).man, <<1>>)[i]]]

\* overlappingSupport has one entry per supporting entry, in the same order
\* and for the same pair, and the three counters add up to totalCount
OverlapIsAligned(r) ==
  LET n == Len(r.baseFeatureBrowsers)
  IN  /\ Len(r.overlappingSupport) = n
      /\ \A i \in 1..n :
           /\ r.overlappingSupport[i].browserId = r.baseFeatureBrowsers[i].browserId
           /\ r.overlappingSupport[i].version = r.baseFeatureBrowsers[i].version
      /\ r.counts.full + r.counts.partial + r.counts.none = n
      /\ r.counts.full = CountAt(r.overlappingSupport, "full")
      /\ r.counts.partial = CountAt(r.overlappingSupport, "partial")

C26_KeyMatchesPairOnly ==
  \A c \in Returned("check") :
    BothLoadable(c) =>
      LET r == calls[c].result
      IN  /\ Len(r.overlappingSupport) = Len(r.baseFeatureBrowsers)
          /\ \A i \in 1..Len(r.baseFeatureBrowsers) :
               LET e == r.baseFeatureBrowsers[i]
                   o == r.overlappingSupport[i]
                   codes == CodesAt(calls[c].target, e.browserId, e.version)
               IN  /\ o.browserId = e.browserId
                   /\ o.version = e.version
                   /\ codes # {} => o.support \in codes
                   /\ codes = {} => o.supportLevel = "none"

\* the get calls that have returned null for an id
ReturnedNull(featureId) ==
  {d \in Returned("get") : calls[d].base = featureId /\ calls[d].feature = Null}

(***************************************************************************)
(* C28: a getFeature(id) that ends in not-found leaves the cache as it     *)
(* is: the step in which its load answers null changes no entry of the     *)
(* cache, the id of a get that returned null is not in the cache, and a    *)
(* later getFeature(id) starts the import() again.                         *)
(***************************************************************************)
C28_NotFoundLeavesCache ==
  [][\A c \in 1..MaxCalls :
       /\ (/\ calls[c].kind = "get"
           /\ calls[c].pc = "import"
           /\ calls'[c].pc = "ready"
           /\ calls'[c].val = Null)
          => /\ featureDataCache' = featureDataCache
             /\ calls[c].base \notin DOMAIN featureDataCache'
       /\ (/\ calls[c].pc = "idle"
           /\ calls'[c].kind = "get"
           /\ ReturnedNull(calls'[c].base) # {})
          => /\ calls'[c].pc = "import"
             /\ loadsStarted'[calls'[c].base] = loadsStarted[calls'[c].base] + 1
             /\ featureDataCache' = featureDataCache]_vars

C28_Witness ==
  \E c \in 1..MaxCalls, featureId \in dataset.requestIds :
    /\ ReturnedNull(featureId) # {}
    /\ c \notin ReturnedNull(featureId)
    /\ calls[c].kind = "get"
    /\ calls[c].base = featureId
    /\ calls[c].pc = "import"
    /\ loadsStarted[featureId] = 2
    /\ featureId \notin DOMAIN featureDataCache

\* the ids of the records of the catalog
CatalogIds ==
  {dataset.featuresData[i].id : i \in 1..Len(dataset.featuresData)}

(***************************************************************************)
(* C23: feature ids are unique across the catalog the build script writes  *)
(* and the engine reads: no two records of features.json have the same id, *)
(* the records made from Can I Use and those made from the MDN data        *)
(* included.                                                               *)
(***************************************************************************)
C23_CatalogIdsUnique ==
  dataset.built =>
    \A i, j \in 1..Len(dataset.featuresData) :
      dataset.featuresData[i].id = dataset.featuresData[j].id => i = j

\* the matrix buildCompatData has for an id of the catalog
BuiltStats(featureId) ==
  LET data == BuildCompatData(dataset.upstream).data
  IN  data[CHOOSE i \in 1..Len(data) : data[i].key = featureId].value.stats

(***************************************************************************)
(* C27: for every id of the catalog, the matrix getFeature(id) returns is  *)
(* the matrix the build script wrote for that id: the file the loader      *)
(* reads is the file the build wrote for the id, and no two different ids  *)
(* of the catalog have the same file.                                      *)
(***************************************************************************)
C27_ArtifactOfSameId ==
  dataset.built =>
    /\ \A featureId \in CatalogIds :
         /\ SanitizedId(featureId) \in DOMAIN dataset.files
         /\ dataset.files[SanitizedId(featureId)].stats = BuiltStats(featureId)
    /\ \A a \in CatalogIds, b \in CatalogIds :
         SanitizedId(a) = SanitizedId(b) => a = b
    /\ \A c \in Returned("get") :
         calls[c].base \in CatalogIds =>
           /\ calls[c].feature # Null
           /\ calls[c].feature.stats = BuiltStats(calls[c].base)

(***************************************************************************)
(* C22: App rejects the case of one feature selected as base and as        *)
(* target: in every render in which the selected base id is the selected   *)
(* target id, ResultsDisplay is not rendered, no compatibility result is   *)
(* kept for display, and the error message is shown.                       *)
(***************************************************************************)
C22_SameIdRejected ==
  (Truthy(app.baseFeatureId) /\ app.baseFeatureId = app.targetFeatureId) =>
    /\ ~ResultsDisplayed(app)
    /\ app.error = SameFeatureError

(***************************************************************************)
(* C30: whenever App renders a compatibility result (the result is not     *)
(* null and both ids are selected), the result is the one                  *)
(* checkCompatibility computed for the selected base and target.           *)
(***************************************************************************)
C30_ResultIsForCurrentPair ==
  (app.variant \in {"first", "second"} /\ ResultsDisplayed(app)) =>
    /\ app.compatibilityResult.base = app.baseFeatureId
    /\ app.compatibilityResult.target = app.targetFeatureId

\* the URL of the current entry of the history
CurrentUrl == app.history[app.index]

\* the search parameters are the selected ids; a parameter is absent exactly
\* when nothing is selected for it
UrlIsSelection ==
  /\ CurrentUrl.base =
       (IF Truthy(app.baseFeatureId) THEN app.baseFeatureId ELSE Absent)
  /\ CurrentUrl.target =
       (IF Truthy(app.targetFeatureId) THEN app.targetFeatureId ELSE Absent)

\* what a selection shows: an id, or nothing
SameSelection(a, b) == IF Truthy(a) THEN a = b ELSE ~Truthy(b)

\* opening the URL selects the selected ids
UrlSelectsSelection ==
  /\ SameSelection(GetFeatureIdFromUrl(app.variant, CurrentUrl, "base"),
                   app.baseFeatureId)
  /\ SameSelection(GetFeatureIdFromUrl(app.variant, CurrentUrl, "target"),
                   app.targetFeatureId)
  /\ Truthy(app.baseFeatureId) => CurrentUrl.base = app.baseFeatureId
  /\ Truthy(app.targetFeatureId) => CurrentUrl.target = app.targetFeatureId

\* a parameter of the URL the page was opened with is absent or selectable
Selectable(param) ==
  \/ param = Absent
  \/ Truthy(GetFeatureIdFromUrl(app.variant, [base |-> param, target |-> param],
                                "base"))

(***************************************************************************)
(* C24: a comparison can be shared by its URL: the effects of every render *)
(* run, and once they have run the parameters base and target of the URL   *)
(* are the selected ids, a parameter being absent exactly when nothing is  *)
(* selected for it.                                                        *)
(***************************************************************************)
C24_UrlIsSelection ==
  /\ [](app.effects = "none" => UrlIsSelection)
  /\ (app.effects # "none") ~> (app.effects = "none")

\* C24 as the code has it: the effects of every render run, and once they
\* have run, opening the URL selects the selected ids and every selected id
\* is its parameter; a parameter nothing is selected for is absent when the
\* parameters of the URL the page was opened with were absent or selectable
C24_UrlSelectsSelection ==
  /\ [](app.effects = "none" =>
          /\ UrlSelectsSelection
          /\ (Selectable(app.history[1].base) /\ Selectable(app.history[1].target))
             => UrlIsSelection)
  /\ (app.effects # "none") ~> (app.effects = "none")

C24_Witness ==
  /\ app.event = "popstate"
  /\ app.effects = "none"
  /\ Len(app.history) = MaxHistory
  /\ Truthy(app.baseFeatureId)
  /\ Truthy(app.targetFeatureId)
  /\ app.baseFeatureId # app.targetFeatureId
  /\ UrlIsSelection
  /\ app.index > 1
  /\ app.history[app.index - 1] # CurrentUrl

\* the details kept for a role are those of the id: the feature of that id,
\* or null for an id that cannot be loaded
DetailsOf(feature, featureId) ==
  IF Loadable(featureId) THEN feature # Null /\ feature.id = featureId
  ELSE feature = Null

\* every loadFeatures has set the state
LoadsSettled ==
  \A c \in 1..MaxCalls : calls[c].kind = "details" => calls[c].pc = "done"

(***************************************************************************)
(* C29: in ResultsDisplay, once every load has settled, the details kept   *)
(* in baseFeature and targetFeature are those of the baseFeatureId and     *)
(* targetFeatureId of the current props, whatever the order in which loads *)
(* started for earlier props and for the current ones answer.              *)
(***************************************************************************)
C29_DetailsAreOfCurrentIds ==
  (display.mounted /\ LoadsSettled) =>
    /\ DetailsOf(display.baseFeature, display.baseFeatureId)
    /\ DetailsOf(display.targetFeature, display.targetFeatureId)
    /\ ~display.loading
=============================================================================
